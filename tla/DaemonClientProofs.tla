-------------------------- MODULE DaemonClientProofs --------------------------
(***************************************************************************)
(* Theorems about the daemon's side of DaemonLink: what a process believes *)
(* of its socket is true, and it always has one or is about to retry.      *)
(* They rest on the handshake invariant of DaemonLinkProofs.               *)
(***************************************************************************)
EXTENDS DaemonLinkProofs

(* Of every process: a socket it names is its own, and either alive or the *)
(* reason for the retry timer; it is authenticated only over an open one.  *)
ProcInv(p) ==
    /\ mode[p] # "running" => ws[p] = NoConn /\ ~rtimer[p] /\ ~authed[p]
    /\ mode[p] = "running" => rtimer[p] \/ (ws[p] # NoConn /\ cEnd[ws[p]] # "closed")
    /\ ws[p] # NoConn => opener[ws[p]] = p /\ cEnd[ws[p]] # "closing"
    /\ rtimer[p] => ws[p] = NoConn \/ cEnd[ws[p]] = "closed"
    /\ hb[p] = authed[p]
    /\ authed[p] => ws[p] # NoConn /\ cEnd[ws[p]] = "open"

(* Of every slot: a live client end is the socket its process names.       *)
EndInv(c) == cEnd[c] \in {"connecting", "open"} => mode[opener[c]] = "running" /\ ws[opener[c]] = c

ClientInv == TypeOK /\ (\A p \in Proc : ProcInv(p)) /\ (\A c \in Conn : EndInv(c))

(* Of the handshake over slot c, seen from the daemon: once authenticated, *)
(* no frame of a handshake is on its way back to it; a rejection is the    *)
(* end of the handshake; and heartbeats come only after it.                *)
On(c) == authed[opener[c]] /\ ws[opener[c]] = c

BeliefInv(c) ==
    /\ On(c) => /\ Without(toD[c], TokD) /\ Without(toD[c], {"auth-reject"})
                /\ Without(toH[c], {"auth-response"})
                /\ c \notin looking /\ c \notin pending
    /\ ~Without(toD[c], {"auth-reject"}) =>
          Without(toD[c], TokD) /\ Without(toH[c], TokH) /\ c \notin looking
    /\ c \in pending => Without(toH[c], {"heartbeat"})

SocketInv == ClientInv /\ HandshakeInv /\ (\A c \in Conn : BeliefInv(c))

(* The invariant holds at first.                                           *)
LEMMA SocketInit == Init => SocketInv
    <1> SUFFICES ASSUME Init PROVE SocketInv
        OBVIOUS
    <1>1. \A p \in Proc : ProcInv(p)
        BY DEF Init, ProcInv
    <1>2. \A c \in Conn : EndInv(c)
        BY DEF Init, EndInv
    <1>3. TypeOK /\ HandshakeInv
        BY TypeInit, HandshakeInit
    <1>4. ASSUME NEW c \in Conn PROVE BeliefInv(c)
        <2>1. toD[c] = << >> /\ c \notin pending /\ ~authed[opener[c]]
            BY <1>3 DEF Init, TypeOK
        <2>2. Without(toD[c], {"auth-reject"})
            BY <2>1 DEF Without
        <2> QED BY <2>1, <2>2 DEF BeliefInv, On
    <1> QED BY <1>1, <1>2, <1>3, <1>4 DEF SocketInv, ClientInv

(* A step that leaves the daemons and the client ends alone.               *)
LEMMA ClientFrame ==
    ASSUME ClientInv, UNCHANGED <<cEnd, opener, daemonVars>>
    PROVE  (\A p \in Proc : ProcInv(p)') /\ (\A c \in Conn : EndInv(c)')
    BY DEF ClientInv, daemonVars, ProcInv, EndInv

(* connect() by a process whose socket is gone.                            *)
LEMMA ConnectClient ==
    ASSUME ClientInv, NEW p \in Proc, ~authed[p], ws[p] = NoConn \/ cEnd[ws[p]] = "closed",
           Connect(p), mode' = [mode EXCEPT ![p] = "running"], UNCHANGED <<authed, hb>>
    PROVE  (\A q \in Proc : ProcInv(q)') /\ (\A c \in Conn : EndInv(c)')
    <1>a. TypeOK /\ ~hb[p] /\ \A d \in Conn : cEnd[d] \in {"connecting", "open"} => opener[d] # p
        BY NoConnAssumption DEF ClientInv, ProcInv, EndInv
    <1>1. ASSUME NEW c \in Conn, Free(c),
                 cEnd' = [cEnd EXCEPT ![c] = "connecting"],
                 opener' = [opener EXCEPT ![c] = p],
                 ws' = [ws EXCEPT ![p] = c],
                 rtimer' = [rtimer EXCEPT ![p] = FALSE]
          PROVE  (\A q \in Proc : ProcInv(q)') /\ (\A d \in Conn : EndInv(d)')
        <2>1. ProcInv(p)'
            BY <1>1, <1>a, NoConnAssumption DEF TypeOK, ProcInv
        <2>2. ASSUME NEW q \in Proc \ {p} PROVE ProcInv(q)'
            <3>1. ws[q] # c /\ ws'[q] = ws[q] /\ mode'[q] = mode[q] /\ rtimer'[q] = rtimer[q]
                BY <1>1, <1>a DEF Free, TypeOK
            <3>2. ws[q] # NoConn => cEnd'[ws[q]] = cEnd[ws[q]] /\ opener'[ws[q]] = opener[ws[q]]
                BY <1>1, <1>a, <3>1 DEF TypeOK
            <3> QED BY <3>1, <3>2 DEF ClientInv, ProcInv
        <2>3. ASSUME NEW d \in Conn PROVE EndInv(d)'
            BY <1>1, <1>a DEF ClientInv, TypeOK, EndInv
        <2> QED BY <2>1, <2>2, <2>3
    <1>2. ASSUME ws' = [ws EXCEPT ![p] = NoConn], rtimer' = [rtimer EXCEPT ![p] = TRUE], UNCHANGED netVars
          PROVE  (\A q \in Proc : ProcInv(q)') /\ (\A d \in Conn : EndInv(d)')
        <2>1. ProcInv(p)'
            BY <1>2, <1>a DEF TypeOK, ProcInv
        <2>2. ASSUME NEW q \in Proc \ {p} PROVE ProcInv(q)'
            BY <1>2, <1>a DEF ClientInv, TypeOK, ProcInv, netVars
        <2>3. ASSUME NEW d \in Conn PROVE EndInv(d)'
            BY <1>2, <1>a DEF ClientInv, TypeOK, EndInv, netVars
        <2> QED BY <2>1, <2>2, <2>3
    <1> QED BY <1>1, <1>2 DEF Connect

(* A process ends, and with it its end of the socket.                      *)
LEMMA ProcessEnds ==
    ASSUME ClientInv, NEW p \in Proc,
           mode' = [mode EXCEPT ![p] = "off"], ws' = [ws EXCEPT ![p] = NoConn],
           authed' = [authed EXCEPT ![p] = FALSE], hb' = [hb EXCEPT ![p] = FALSE],
           rtimer' = [rtimer EXCEPT ![p] = FALSE], opener' = opener,
           NEW e \in {"closing", "closed"},
           cEnd' = IF ws[p] \in Conn THEN [cEnd EXCEPT ![ws[p]] = e] ELSE cEnd
    PROVE  (\A q \in Proc : ProcInv(q)') /\ (\A c \in Conn : EndInv(c)')
    <1>a. TypeOK
        BY DEF ClientInv
    <1>1. ProcInv(p)'
        BY <1>a DEF TypeOK, ProcInv
    <1>2. ASSUME NEW q \in Proc \ {p} PROVE ProcInv(q)'
        <2>1. ws[q] # NoConn => ws[q] # ws[p]
            BY DEF ClientInv, ProcInv
        <2>2. ws[q] # NoConn => cEnd'[ws[q]] = cEnd[ws[q]]
            BY <1>a, <2>1 DEF TypeOK
        <2> QED BY <1>a, <2>2 DEF ClientInv, TypeOK, ProcInv
    <1>3. ASSUME NEW d \in Conn PROVE EndInv(d)'
        BY <1>a DEF ClientInv, TypeOK, EndInv
    <1> QED BY <1>1, <1>2, <1>3

(* The client's end of c is gone, whatever the reason.                     *)
LEMMA EndGone ==
    ASSUME ClientInv, NEW c \in Conn, NEW code, cEnd' = [cEnd EXCEPT ![c] = "closed"],
           opener' = opener, ClientEndGone(c, code)
    PROVE  (\A q \in Proc : ProcInv(q)') /\ (\A d \in Conn : EndInv(d)')
    <1> DEFINE p == opener[c]
    <1>a. TypeOK /\ p \in Proc /\ c # NoConn
        BY NoConnAssumption DEF ClientInv, TypeOK
    <1>b. \A q \in Proc \ {p} : ws[q] # c
        BY <1>a DEF ClientInv, ProcInv
    <1>1. CASE mode[p] = "running" /\ ws[p] = c
        <2>0. ClientClosed(p, code)
            BY <1>1 DEF ClientEndGone
        <2>1. ProcInv(p)'
            BY <1>1, <1>a, <2>0 DEF ClientClosed, ClientInv, TypeOK, ProcInv
        <2>2. ASSUME NEW q \in Proc \ {p} PROVE ProcInv(q)'
            <3>1. /\ ws'[q] = ws[q] /\ mode'[q] = mode[q] /\ rtimer'[q] = rtimer[q]
                  /\ hb'[q] = hb[q] /\ authed'[q] = authed[q]
                BY <1>a, <2>0 DEF ClientClosed, TypeOK
            <3>2. ws[q] # NoConn => cEnd'[ws[q]] = cEnd[ws[q]]
                BY <1>a, <1>b DEF TypeOK
            <3> QED BY <3>1, <3>2 DEF ClientInv, ProcInv
        <2>3. ASSUME NEW d \in Conn PROVE EndInv(d)'
            BY <1>1, <1>a, <2>0 DEF ClientClosed, ClientInv, TypeOK, EndInv
        <2> QED BY <2>1, <2>2, <2>3
    <1>2. CASE ~(mode[p] = "running" /\ ws[p] = c)
        <2>0. UNCHANGED daemonVars
            BY <1>2 DEF ClientEndGone
        <2>1. ws[p] # c
            BY <1>2, <1>a DEF ClientInv, ProcInv
        <2>2. ASSUME NEW q \in Proc PROVE ProcInv(q)'
            <3>1. ws[q] # NoConn => cEnd'[ws[q]] = cEnd[ws[q]]
                BY <1>a, <1>b, <2>1 DEF TypeOK
            <3> QED BY <2>0, <3>1 DEF daemonVars, ClientInv, ProcInv
        <2>3. ASSUME NEW d \in Conn PROVE EndInv(d)'
            BY <1>a, <2>0 DEF daemonVars, ClientInv, TypeOK, EndInv
        <2> QED BY <2>2, <2>3
    <1> QED BY <1>1, <1>2

(* A rejection does not reach a process that is authenticated, so that it  *)
(* never ends up with heartbeats but without authentication.               *)
LEMMA ReceiveClient ==
    ASSUME ClientInv, NEW c \in Conn, ClientReceive(c), BeliefInv(c)
    PROVE  (\A q \in Proc : ProcInv(q)') /\ (\A d \in Conn : EndInv(d)')
    <1> DEFINE p == opener[c]
    <1>a. TypeOK /\ p \in Proc /\ c # NoConn /\ opener' = opener
        BY NoConnAssumption DEF ClientInv, TypeOK, ClientReceive
    <1>1. CASE Head(toD[c]) \in {"close", "close-4001"}
        BY <1>1, <1>a, EndGone DEF ClientReceive
    <1>2. CASE Head(toD[c]) = "auth-accept" /\ mode[p] = "running" /\ ws[p] = c
        <2>1. /\ cEnd' = cEnd /\ authed' = [authed EXCEPT ![p] = TRUE] /\ hb' = [hb EXCEPT ![p] = TRUE]
              /\ UNCHANGED <<mode, ws, rtimer>>
            BY <1>2 DEF ClientReceive
        <2>2. cEnd[c] = "open"
            BY <1>2, <1>a DEF ClientReceive, ClientInv, ProcInv
        <2>3. ProcInv(p)'
            BY <1>2, <1>a, <2>1, <2>2 DEF ClientInv, TypeOK, ProcInv
        <2>4. ASSUME NEW q \in Proc \ {p} PROVE ProcInv(q)'
            BY <1>a, <2>1 DEF ClientInv, TypeOK, ProcInv
        <2> QED BY <1>a, <2>1, <2>3, <2>4 DEF ClientInv, EndInv
    <1>3. CASE Head(toD[c]) = "auth-reject"
        <2>1. cEnd' = cEnd /\ UNCHANGED <<mode, ws, hb, rtimer>>
            BY <1>3 DEF ClientReceive
        <2>2. authed' = authed
            <3>1. ~Without(toD[c], {"auth-reject"})
                BY <1>3, <1>a DEF TypeOK, ClientReceive, Without
            <3>2. mode[p] = "running" /\ ws[p] = c => ~authed[p]
                BY <3>1 DEF BeliefInv, On
            <3>3. authed \in [Proc -> BOOLEAN]
                BY <1>a DEF TypeOK
            <3>4. ~authed[p] => authed[p] = FALSE
                BY <1>a, <3>3
            <3>5. ~authed[p] => [authed EXCEPT ![p] = FALSE] = authed
                BY <1>a, <3>3, <3>4
            <3> QED BY <1>3, <3>2, <3>5 DEF ClientReceive
        <2> QED BY <1>a, <2>1, <2>2, ClientFrame DEF daemonVars
    <1>4. CASE UNCHANGED <<cEnd, daemonVars>>
        BY <1>4, <1>a, ClientFrame
    <1> QED BY <1>1, <1>2, <1>3, <1>4 DEF ClientReceive

-----------------------------------------------------------------------------
(* Every step, for the daemon's part of the invariant.                     *)
LEMMA ClientStep ==
    ASSUME SocketInv, [Next]_vars
    PROVE  (\A q \in Proc : ProcInv(q)') /\ (\A d \in Conn : EndInv(d)')
    <1> DEFINE G == (\A q \in Proc : ProcInv(q)') /\ (\A d \in Conn : EndInv(d)')
    <1>a. ClientInv /\ TypeOK
        BY DEF SocketInv, ClientInv
    <1>1. ASSUME NEW p \in Proc, DaemonStart(p) PROVE G
        <2>1. ~authed[p] /\ ws[p] = NoConn
            BY <1>1, <1>a DEF DaemonStart, ClientInv, ProcInv
        <2> QED BY <1>1, <1>a, <2>1, ConnectClient DEF DaemonStart
    <1>2. ASSUME NEW p \in Proc, ReconnectTimer(p) PROVE G
        <2>1. ~authed[p] /\ (ws[p] = NoConn \/ cEnd[ws[p]] = "closed") /\ mode[p] = "running"
            BY <1>2, <1>a DEF ReconnectTimer, ClientInv, ProcInv
        <2>2. mode' = [mode EXCEPT ![p] = "running"]
            BY <1>2, <1>a, <2>1 DEF ReconnectTimer, TypeOK
        <2> QED BY <1>2, <1>a, <2>1, <2>2, ConnectClient DEF ReconnectTimer
    <1>3. ASSUME NEW p \in Proc, HeartbeatTimer(p) PROVE G
        BY <1>3, <1>a, ClientFrame DEF HeartbeatTimer
    <1>4. ASSUME NEW p \in Proc, Shutdown(p) PROVE G
        <2>1. CASE ws[p] \in Conn /\ cEnd[ws[p]] = "open"
            BY <1>4, <1>a, <2>1, ProcessEnds DEF Shutdown
        <2>2. CASE ~(ws[p] \in Conn /\ cEnd[ws[p]] = "open")
            BY <1>4, <1>a, <2>2, ProcessEnds DEF Shutdown
        <2> QED BY <2>1, <2>2
    <1>5. ASSUME NEW p \in Proc, DaemonCrash(p) PROVE G
        BY <1>5, <1>a, ProcessEnds DEF DaemonCrash
    <1>6. ASSUME NEW c \in Conn, ClientOpen(c) PROVE G
        <2>1. ASSUME NEW q \in Proc PROVE ProcInv(q)'
            BY <1>6, <1>a DEF ClientOpen, ClientInv, TypeOK, ProcInv, daemonVars
        <2>2. ASSUME NEW d \in Conn PROVE EndInv(d)'
            BY <1>6, <1>a DEF ClientOpen, ClientInv, TypeOK, EndInv, daemonVars
        <2> QED BY <2>1, <2>2
    <1>7. ASSUME NEW c \in Conn, ClientReceive(c) PROVE G
        BY <1>7, <1>a, ReceiveClient DEF SocketInv
    <1>8. ASSUME NEW c \in Conn, ClientAbort(c) PROVE G
        BY <1>8, <1>a, EndGone DEF ClientAbort
    <1>9. ASSUME NEW c \in Conn, HandleConnection(c) \/ AuthTimeout(c) \/ HqReceive(c) \/ LookupAccept(c)
                                 \/ LookupReject(c) \/ LookupThrows(c) \/ ServerAbort(c)
          PROVE  G
        <2>1. UNCHANGED <<cEnd, opener, daemonVars>>
            BY <1>9 DEF HandleConnection, AuthTimeout, HqReceive, LookupAccept, LookupReject, LookupThrows,
                        SendReject, ServerAbort
        <2> QED BY <1>a, <2>1, ClientFrame
    <1>10. CASE CheckHeartbeats \/ HqRestart \/ UNCHANGED vars
        <2>1. UNCHANGED <<cEnd, opener, daemonVars>>
            BY <1>10 DEF CheckHeartbeats, HqRestart, vars, netVars
        <2> QED BY <1>a, <2>1, ClientFrame
    <1> QED BY <1>1, <1>2, <1>3, <1>4, <1>5, <1>6, <1>7, <1>8, <1>9, <1>10 DEF Next, DaemonStep, ConnStep
-----------------------------------------------------------------------------
(* Every step, for what the daemon may believe of the handshake.           *)

(* The frames BeliefInv is about; a slot that gains none of them and no    *)
(* part in the handshake.                                                  *)
Marks == TokD \cup TokH \cup {"auth-reject", "heartbeat"}
Gains(q, r) == \E S \in SUBSET Marks : Without(q, S) /\ ~Without(r, S)
Quieter(d) ==
    /\ ~Gains(toD[d], toD'[d]) /\ ~Gains(toH[d], toH'[d])
    /\ d \in looking' => d \in looking
    /\ d \in pending' => d \in pending
    /\ On(d)' => On(d)

(* Which queues gain no mark.                                              *)
LEMMA GainsNone ==
    ASSUME NEW T, NEW q \in Seq(T), NEW m \in T
    PROVE  /\ ~Gains(q, q) /\ ~Gains(q, << >>)
           /\ q # << >> => ~Gains(q, Tail(q))
           /\ m \notin Marks => ~Gains(q, Append(q, m))
    <1>1. ~Gains(q, q) /\ ~Gains(q, << >>)
        BY DEF Gains, Without
    <1>2. q # << >> => ~Gains(q, Tail(q))
        BY WithoutStep DEF Gains
    <1>3. ASSUME m \notin Marks PROVE ~Gains(q, Append(q, m))
        <2>1. ASSUME NEW S \in SUBSET Marks, Without(q, S) PROVE Without(Append(q, m), S)
            BY <1>3, <2>1, WithoutStep
        <2> QED BY <2>1 DEF Gains
    <1> QED BY <1>1, <1>2, <1>3

(* A step after which fewer marks are under way keeps what is believed.    *)
LEMMA QuieterBelief ==
    ASSUME NEW d \in Conn, BeliefInv(d), Quieter(d) PROVE BeliefInv(d)'
    <1>1. \A S \in SUBSET Marks : Without(toD[d], S) => Without(toD'[d], S)
        BY DEF Quieter, Gains
    <1>2. \A S \in SUBSET Marks : Without(toH[d], S) => Without(toH'[d], S)
        BY DEF Quieter, Gains
    <1>3. TokD \subseteq Marks /\ TokH \subseteq Marks /\ {"auth-reject"} \subseteq Marks
          /\ {"auth-response"} \subseteq Marks /\ {"heartbeat"} \subseteq Marks
        BY DEF Marks, TokH
    <1>4. On(d)' => /\ Without(toD'[d], TokD) /\ Without(toD'[d], {"auth-reject"})
                    /\ Without(toH'[d], {"auth-response"})
                    /\ d \notin looking' /\ d \notin pending'
        BY <1>1, <1>2, <1>3 DEF BeliefInv, Quieter
    <1>5. ~Without(toD'[d], {"auth-reject"}) =>
              Without(toD'[d], TokD) /\ Without(toH'[d], TokH) /\ d \notin looking'
        BY <1>1, <1>2, <1>3 DEF BeliefInv, Quieter
    <1>6. d \in pending' => Without(toH'[d], {"heartbeat"})
        BY <1>2, <1>3 DEF BeliefInv, Quieter
    <1> QED BY <1>4, <1>5, <1>6 DEF BeliefInv

(* What the operators that touch a queue do to it.                         *)
LEMMA QueueQuiet ==
    ASSUME TypeOK, NEW c \in Conn, NEW d \in Conn
    PROVE  /\ ~Gains(toD[d], toD[d]) /\ ~Gains(toH[d], toH[d])
           /\ ~Gains(toD[d], << >>) /\ ~Gains(toH[d], << >>)
           /\ toD[d] # << >> => ~Gains(toD[d], Tail(toD[d]))
           /\ toH[d] # << >> => ~Gains(toH[d], Tail(toH[d]))
           /\ ~Gains(toH[d], SentToHq(c, "close")[d])
           /\ ~Gains(toD[d], Delivered(toD, c, "close")[d])
           /\ \A C, f : f \in {"close", "close-4001"} => ~Gains(toD[d], CloseFrames(toD, C, f)[d])
    <1>a. toD[d] \in Seq(ToDaemon) /\ toH[d] \in Seq(ToHq)
        BY DEF TypeOK
    <1>b. /\ "close" \in ToDaemon /\ "close-4001" \in ToDaemon /\ "close" \in ToHq
          /\ "close" \notin Marks /\ "close-4001" \notin Marks
        BY DEF ToDaemon, ToHq, Marks, TokD, TokH
    <1>1. ~Gains(toD[d], toD[d]) /\ ~Gains(toD[d], << >>) /\ (toD[d] # << >> => ~Gains(toD[d], Tail(toD[d])))
          /\ ~Gains(toD[d], Append(toD[d], "close")) /\ ~Gains(toD[d], Append(toD[d], "close-4001"))
        BY <1>a, <1>b, GainsNone
    <1>2. ~Gains(toH[d], toH[d]) /\ ~Gains(toH[d], << >>) /\ (toH[d] # << >> => ~Gains(toH[d], Tail(toH[d])))
          /\ ~Gains(toH[d], Append(toH[d], "close"))
        BY <1>a, <1>b, GainsNone
    <1>3. SentToHq(c, "close")[d] \in {toH[d], Append(toH[d], "close")}
        BY DEF SentToHq, TypeOK
    <1>4. Delivered(toD, c, "close")[d] \in {toD[d], Append(toD[d], "close")}
        BY DEF Delivered, TypeOK
    <1>5. \A C, f : CloseFrames(toD, C, f)[d] \in {toD[d], Append(toD[d], f)}
        BY DEF CloseFrames
    <1> QED BY <1>1, <1>2, <1>3, <1>4, <1>5

(* A queue that may have taken one more frame, none of them in S.          *)
LEMMA WithoutMore ==
    ASSUME NEW T, NEW q \in Seq(T), NEW S, Without(q, S), NEW m \in T, m \notin S,
           NEW r, r = q \/ r = Append(q, m)
    PROVE  Without(r, S)
    <1>1. Without(Append(q, m), S)
        BY WithoutStep
    <1> QED BY <1>1

(* The daemon's own steps keep it.                                         *)
LEMMA DaemonStepBelief ==
    ASSUME SocketInv, NEW p \in Proc, DaemonStep(p), NEW d \in Conn
    PROVE  BeliefInv(d)'
    <1>a. TypeOK /\ ClientInv /\ BeliefInv(d) /\ SlotInv(d) /\ opener[d] \in Proc
        BY DEF SocketInv, ClientInv, HandshakeInv, TypeOK
    <1>k. ~Gains(toD[d], toD[d]) /\ ~Gains(toH[d], toH[d]) /\ ~Gains(toD[d], << >>)
          /\ \A c \in Conn : ~Gains(toH[d], SentToHq(c, "close")[d])
        BY <1>a, QueueQuiet
    <1>1. CASE DaemonStart(p) \/ ReconnectTimer(p)
        <2>1. ~authed[p]
            BY <1>1, <1>a DEF DaemonStart, ReconnectTimer, ClientInv, ProcInv
        <2>2. Connect(p) /\ UNCHANGED <<authed, hqVars>>
            BY <1>1 DEF DaemonStart, ReconnectTimer
        <2>3. toD' = toD /\ toH' = toH
            BY <2>2 DEF Connect, netVars
        <2>4. On(d)' => On(d)
            <3>1. CASE UNCHANGED netVars /\ ws' = [ws EXCEPT ![p] = NoConn]
                BY <1>a, <2>2, <3>1, NoConnAssumption DEF On, netVars, TypeOK
            <3>2. ASSUME NEW c \in Conn, opener' = [opener EXCEPT ![c] = p], ws' = [ws EXCEPT ![p] = c]
                  PROVE  On(d)' => On(d)
                BY <1>a, <2>1, <2>2, <3>2 DEF On, TypeOK
            <3> QED BY <2>2, <3>1, <3>2 DEF Connect
        <2>5. Quieter(d)
            BY <1>k, <2>2, <2>3, <2>4 DEF Quieter, hqVars
        <2> QED BY <1>a, <2>5, QuieterBelief
    <1>2. CASE HeartbeatTimer(p)
        <2>1. /\ ws[p] \in Conn /\ toH' = SentToHq(ws[p], "heartbeat") /\ hb[p]
              /\ UNCHANGED <<toD, opener, daemonVars, hqVars>>
            BY <1>2 DEF HeartbeatTimer
        <2>2. authed[p] /\ opener[ws[p]] = p
            BY <1>a, <2>1, NoConnAssumption DEF ClientInv, ProcInv
        <2>3. CASE d # ws[p]
            <3>1. toH'[d] = toH[d]
                BY <1>a, <2>1, <2>3 DEF SentToHq, TypeOK
            <3> QED BY <1>a, <2>1, <3>1 DEF BeliefInv, On, daemonVars, hqVars
        <2>4. CASE d = ws[p]
            <3>1. On(d)
                BY <2>2, <2>4 DEF On
            <3>2. toH'[d] \in {toH[d], Append(toH[d], "heartbeat")}
                BY <1>a, <2>1, <2>4 DEF SentToHq, TypeOK
            <3>3. Without(toH'[d], {"auth-response"})
                <4>1. toH[d] \in Seq(ToHq) /\ "heartbeat" \in ToHq /\ Without(toH[d], {"auth-response"})
                    BY <1>a, <3>1 DEF TypeOK, ToHq, BeliefInv
                <4>2. "heartbeat" \notin {"auth-response"}
                    OBVIOUS
                <4> QED BY <3>2, <4>1, <4>2, WithoutMore
            <3> QED BY <1>a, <2>1, <3>1, <3>3 DEF BeliefInv, On, daemonVars, hqVars
        <2> QED BY <2>3, <2>4
    <1>3. CASE Shutdown(p) \/ DaemonCrash(p)
        <2>1. toD'[d] \in {toD[d], << >>}
            BY <1>3, <1>a DEF Shutdown, DaemonCrash, TypeOK
        <2>2. ~Gains(toH[d], toH'[d])
            BY <1>3, <1>k DEF Shutdown, DaemonCrash
        <2>3. On(d)' => On(d)
            BY <1>3, <1>a, NoConnAssumption DEF Shutdown, DaemonCrash, On, TypeOK
        <2>4. UNCHANGED hqVars
            BY <1>3 DEF Shutdown, DaemonCrash
        <2>5. Quieter(d)
            BY <1>k, <2>1, <2>2, <2>3, <2>4 DEF Quieter, hqVars
        <2> QED BY <1>a, <2>5, QuieterBelief
    <1> QED BY <1>1, <1>2, <1>3 DEF DaemonStep

(* The client's end of a slot: nobody becomes authenticated by its loss.   *)
LEMMA EndGoneOn ==
    ASSUME TypeOK, NEW c \in Conn, NEW code, ClientEndGone(c, code), opener' = opener, NEW d \in Conn
    PROVE  On(d)' => On(d)
    <1>1. CASE UNCHANGED daemonVars
        BY <1>1 DEF On, daemonVars
    <1>2. CASE ClientClosed(opener[c], code)
        BY <1>2, NoConnAssumption DEF ClientClosed, On, TypeOK
    <1> QED BY <1>1, <1>2 DEF ClientEndGone

(* A message the daemon takes keeps it.                                    *)
LEMMA ReceiveBelief ==
    ASSUME SocketInv, NEW c \in Conn, ClientReceive(c), NEW d \in Conn
    PROVE  BeliefInv(d)'
    <1> DEFINE p == opener[c]
    <1> DEFINE q == toD[c]
    <1>a. /\ TypeOK /\ ClientInv /\ BeliefInv(d) /\ BeliefInv(c) /\ SlotInv(c) /\ p \in Proc
          /\ q \in Seq(ToDaemon) /\ toH[c] \in Seq(ToHq) /\ q # << >> /\ Head(q) \in ToDaemon
        BY DEF SocketInv, ClientInv, HandshakeInv, TypeOK, ClientReceive
    <1>b. UNCHANGED <<opener, hqVars>>
        BY DEF ClientReceive
    <1>k. /\ ~Gains(toD[d], toD[d]) /\ ~Gains(toH[d], toH[d]) /\ ~Gains(toD[d], << >>)
          /\ ~Gains(q, Tail(q)) /\ ~Gains(toH[d], SentToHq(c, "close")[d])
        BY <1>a, QueueQuiet
    <1>h. \A S : Head(q) \in S => ~Without(q, S)
        BY <1>a DEF Without
    <1>1. CASE Head(q) \in {"close", "close-4001"}
        <2>1. toD'[d] \in {toD[d], << >>} /\ ~Gains(toH[d], toH'[d])
            BY <1>1, <1>a, <1>k DEF ClientReceive, TypeOK
        <2>2. On(d)' => On(d)
            BY <1>1, <1>a, <1>b, EndGoneOn DEF ClientReceive
        <2>3. Quieter(d)
            BY <1>b, <1>k, <2>1, <2>2 DEF Quieter, hqVars
        <2> QED BY <1>a, <2>3, QuieterBelief
    <1>2. CASE Head(q) \notin {"close", "close-4001"} /\ toH' = toH /\ (On(d)' => On(d))
        <2>1. toD'[d] = IF d = c THEN Tail(q) ELSE toD[d]
            BY <1>2, <1>a DEF ClientReceive, TypeOK
        <2>2. Quieter(d)
            BY <1>b, <1>2, <1>k, <2>1 DEF Quieter, hqVars
        <2> QED BY <1>a, <2>2, QuieterBelief
    <1>3. CASE d # c /\ Head(q) \notin {"close", "close-4001"}
        <2>1. toD'[d] = toD[d] /\ toH'[d] = toH[d]
            BY <1>3, <1>a DEF ClientReceive, SentToHq, TypeOK
        <2>2. On(d)' => On(d)
            <3>1. ws' = ws /\ (\/ authed' = authed
                               \/ ws[p] = c /\ \E b : authed' = [authed EXCEPT ![p] = b])
                BY <1>3 DEF ClientReceive, daemonVars
            <3>2. CASE authed' = authed
                BY <1>b, <3>1, <3>2 DEF On
            <3>3. CASE ws[p] = c /\ \E b : authed' = [authed EXCEPT ![p] = b]
                <4>1. opener[d] # p => authed'[opener[d]] = authed[opener[d]]
                    BY <1>a, <3>3 DEF TypeOK
                <4> QED BY <1>3, <1>b, <3>1, <3>3, <4>1 DEF On
            <3> QED BY <3>1, <3>2, <3>3
        <2>3. Quieter(d)
            BY <1>b, <1>k, <2>1, <2>2 DEF Quieter, hqVars
        <2> QED BY <1>a, <2>3, QuieterBelief
    <1>4. CASE d = c /\ Head(q) \in {"auth-challenge", "auth-accept"} /\ mode[p] = "running" /\ ws[p] = c
        <2>1. /\ ~Without(q, TokD) /\ Without(toH[c], TokH) /\ c \notin looking
              /\ Without(Tail(q), TokD)
            BY <1>4, <1>a, <1>h, AtMostOneStep DEF SlotInv, OneToken, TokD
        <2>2. ~On(c) /\ Without(q, {"auth-reject"}) /\ Without(Tail(q), {"auth-reject"})
            BY <1>a, <2>1, WithoutStep DEF BeliefInv
        <2>3. toD'[c] = Tail(q)
            BY <1>4, <1>a DEF ClientReceive, TypeOK
        <2>4. CASE Head(q) = "auth-challenge"
            <3>1. toH'[c] \in {toH[c], Append(toH[c], "auth-response")} /\ UNCHANGED daemonVars
                BY <1>4, <1>a, <2>4 DEF ClientReceive, SentToHq, TypeOK
            <3>2. c \in pending => Without(toH'[c], {"heartbeat"})
                <4>1. ASSUME c \in pending PROVE Without(toH[c], {"heartbeat"})
                    BY <1>a, <4>1 DEF BeliefInv
                <4>2. "auth-response" \in ToHq /\ "auth-response" \notin {"heartbeat"}
                    BY DEF ToHq
                <4> QED BY <1>a, <3>1, <4>1, <4>2, WithoutMore
            <3>3. ~On(c)'
                BY <1>b, <2>2, <3>1 DEF On, daemonVars
            <3> QED BY <1>4, <1>b, <2>1, <2>2, <2>3, <3>2, <3>3 DEF BeliefInv, hqVars
        <2>5. CASE Head(q) = "auth-accept"
            <3>1. toH'[c] \in {toH[c], Append(toH[c], "register")}
                BY <1>4, <1>a, <2>5 DEF ClientReceive, SentToHq, TypeOK
            <3>2. c \notin pending
                BY <1>a, <1>h, <2>5 DEF SlotInv, NotAccepted
            <3>3. Without(toH[c], {"auth-response"})
                BY <2>1 DEF Without, TokH
            <3>4. Without(toH'[c], {"auth-response"})
                <4>1. "register" \in ToHq /\ "register" \notin {"auth-response"}
                    BY DEF ToHq
                <4> QED BY <1>a, <3>1, <3>3, <4>1, WithoutMore
            <3> QED BY <1>4, <1>b, <2>1, <2>2, <2>3, <3>2, <3>4 DEF BeliefInv, hqVars
        <2> QED BY <1>4, <2>4, <2>5
    <1>5. CASE d = c /\ Head(q) \in {"auth-challenge", "auth-accept"} /\ ~(mode[p] = "running" /\ ws[p] = c)
        <2>1. toH' = toH /\ UNCHANGED daemonVars
            BY <1>5 DEF ClientReceive
        <2> QED BY <1>2, <1>5, <1>b, <2>1 DEF On, daemonVars
    <1>6. CASE d = c /\ Head(q) = "auth-reject"
        <2>1. toH' = toH /\ ws' = ws /\ authed' \in {authed, [authed EXCEPT ![p] = FALSE]}
            BY <1>6 DEF ClientReceive
        <2>2. On(d)' => On(d)
            BY <1>6, <1>a, <1>b, <2>1 DEF On, TypeOK
        <2> QED BY <1>2, <1>6, <2>1, <2>2
    <1>7. Head(q) \in {"close", "close-4001", "auth-challenge", "auth-accept", "auth-reject"}
        BY <1>a DEF ToDaemon
    <1> QED BY <1>1, <1>3, <1>4, <1>5, <1>6, <1>7

(* A refusal HQ sends keeps it.                                            *)
LEMMA SendRejectBelief ==
    ASSUME SocketInv, NEW c \in looking, SendReject(c), NEW d \in Conn
    PROVE  BeliefInv(d)'
    <1>a. /\ TypeOK /\ BeliefInv(d) /\ BeliefInv(c) /\ SlotInv(c) /\ c \in Conn
          /\ toD[c] \in Seq(ToDaemon)
        BY DEF SocketInv, HandshakeInv, TypeOK
    <1>k. ~Gains(toD[d], toD[d]) /\ ~Gains(toH[d], toH[d])
        BY <1>a, QueueQuiet
    <1>b. /\ looking' = looking \ {c} /\ pending' = pending \ {c} /\ UNCHANGED <<toH, opener, daemonVars>>
          /\ toD' = CloseFrames(Delivered(toD, c, "auth-reject"), {c}, "close-4001")
        BY DEF SendReject
    <1>1. CASE d # c
        <2>1. toD'[d] = toD[d]
            BY <1>1, <1>a, <1>b DEF CloseFrames, Delivered, TypeOK
        <2>2. Quieter(d)
            BY <1>b, <1>k, <2>1 DEF Quieter, On, daemonVars
        <2> QED BY <1>a, <2>2, QuieterBelief
    <1>2. CASE d = c
        <2>1. Without(toD[c], TokD) /\ Without(toH[c], TokH) /\ ~On(c)
            BY <1>a DEF SlotInv, OneToken, BeliefInv
        <2>2. toD'[c] \in {toD[c], Append(toD[c], "auth-reject"), Append(toD[c], "close-4001"),
                           Append(Append(toD[c], "auth-reject"), "close-4001")}
            BY <1>a, <1>b DEF CloseFrames, Delivered, TypeOK
        <2>3. Without(toD'[c], TokD)
            <3>1. {"auth-reject", "close-4001"} \subseteq ToDaemon \ TokD
                BY DEF ToDaemon, TokD
            <3>2. /\ Append(toD[c], "auth-reject") \in Seq(ToDaemon)
                  /\ Without(Append(toD[c], "auth-reject"), TokD)
                  /\ Without(Append(toD[c], "close-4001"), TokD)
                BY <1>a, <2>1, <3>1, WithoutStep
            <3>3. Without(Append(Append(toD[c], "auth-reject"), "close-4001"), TokD)
                BY <3>1, <3>2, WithoutStep
            <3> QED BY <2>1, <2>2, <3>2, <3>3
        <2> QED BY <1>2, <1>b, <2>1, <2>3 DEF BeliefInv, On, daemonVars
    <1> QED BY <1>1, <1>2

(* The steps of a connection keep it.                                      *)
LEMMA ConnStepBelief ==
    ASSUME SocketInv, NEW c \in Conn, ConnStep(c), NEW d \in Conn
    PROVE  BeliefInv(d)'
    <1>a. /\ TypeOK /\ ClientInv /\ BeliefInv(d) /\ BeliefInv(c) /\ SlotInv(c)
          /\ toD[c] \in Seq(ToDaemon) /\ toH[c] \in Seq(ToHq)
        BY DEF SocketInv, ClientInv, HandshakeInv, TypeOK
    <1>k. /\ ~Gains(toD[d], toD[d]) /\ ~Gains(toH[d], toH[d])
          /\ ~Gains(toD[d], << >>) /\ ~Gains(toH[d], << >>)
          /\ (toH[d] # << >> => ~Gains(toH[d], Tail(toH[d])))
          /\ ~Gains(toD[d], Delivered(toD, c, "close")[d])
          /\ \A C : ~Gains(toD[d], CloseFrames(toD, C, "close")[d])
        BY <1>a, QueueQuiet
    <1>h. \A S : toH[c] # << >> /\ Head(toH[c]) \in S => ~Without(toH[c], S)
        BY <1>a DEF Without
    <1>1. CASE ClientOpen(c)
        <2>1. Quieter(d)
            BY <1>1, <1>k DEF ClientOpen, Quieter, On, daemonVars, hqVars
        <2> QED BY <1>a, <2>1, QuieterBelief
    <1>2. CASE ClientReceive(c)
        BY <1>2, ReceiveBelief
    <1>3. CASE ClientAbort(c)
        <2>1. On(d)' => On(d)
            BY <1>3, <1>a, EndGoneOn DEF ClientAbort
        <2>2. toD'[d] \in {toD[d], << >>} /\ UNCHANGED <<toH, hqVars>>
            BY <1>3, <1>a DEF ClientAbort, TypeOK
        <2>3. Quieter(d)
            BY <1>k, <2>1, <2>2 DEF Quieter, hqVars
        <2> QED BY <1>a, <2>3, QuieterBelief
    <1>4. CASE HandleConnection(c)
        <2>1. /\ pending' = pending \cup {c} /\ toD' = [toD EXCEPT ![c] = Append(@, "auth-challenge")]
              /\ UNCHANGED <<toH, opener, daemonVars, looking>>
            BY <1>4 DEF HandleConnection
        <2>2. CASE d # c
            <3>1. Quieter(d)
                BY <1>a, <1>k, <2>1, <2>2 DEF Quieter, On, daemonVars, TypeOK
            <3> QED BY <1>a, <3>1, QuieterBelief
        <2>3. CASE d = c
            <3>1. toD[c] = << >> /\ toH[c] = << >> /\ cEnd[c] = "connecting"
                BY <1>4, <1>a DEF HandleConnection, SlotInv
            <3>2. ~On(c)'
                <4>1. opener[c] \in Proc
                    BY <1>a DEF TypeOK
                <4> QED BY <1>a, <2>1, <3>1, <4>1 DEF On, daemonVars, ClientInv, ProcInv
            <3>3. Without(toD'[c], {"auth-reject"}) /\ Without(toH'[c], {"heartbeat"})
                BY <1>a, <2>1, <3>1 DEF TypeOK, Without
            <3> QED BY <2>3, <3>2, <3>3 DEF BeliefInv
        <2> QED BY <2>2, <2>3
    <1>5. CASE AuthTimeout(c)
        <2>1. /\ toD' \in {toD, CloseFrames(toD, {c}, "close")} /\ pending' = pending \ {c}
              /\ UNCHANGED <<toH, opener, daemonVars, looking>>
            BY <1>5 DEF AuthTimeout
        <2>2. Quieter(d)
            BY <1>k, <2>1 DEF Quieter, On, daemonVars
        <2> QED BY <1>a, <2>2, QuieterBelief
    <1>6. CASE HqReceive(c)
        <2>1. UNCHANGED <<opener, daemonVars>> /\ toH[c] # << >>
            BY <1>6 DEF HqReceive
        <2>2. CASE Head(toH[c]) = "auth-response"
            <3>1. /\ toH' = [toH EXCEPT ![c] = Tail(@)] /\ looking' \subseteq looking \cup {c}
                  /\ UNCHANGED <<toD, pending>>
                BY <1>6, <2>2 DEF HqReceive
            <3>2. ~On(c) /\ Without(toD[c], {"auth-reject"})
                BY <1>a, <1>h, <2>1, <2>2 DEF BeliefInv, TokH
            <3>3. CASE d # c
                <4>1. Quieter(d)
                    BY <1>a, <1>k, <2>1, <3>1, <3>3 DEF Quieter, On, daemonVars, TypeOK
                <4> QED BY <1>a, <4>1, QuieterBelief
            <3>4. CASE d = c
                <4>1. c \in pending => Without(toH'[c], {"heartbeat"})
                    <5>1. toH'[c] = Tail(toH[c])
                        BY <1>a, <3>1 DEF TypeOK
                    <5>2. ASSUME c \in pending PROVE Without(toH[c], {"heartbeat"})
                        BY <1>a, <5>2 DEF BeliefInv
                    <5>3. "heartbeat" \in ToHq
                        BY DEF ToHq
                    <5> QED BY <1>a, <2>1, <5>1, <5>2, <5>3, WithoutStep
                <4> QED BY <2>1, <3>1, <3>2, <3>4, <4>1 DEF BeliefInv, On, daemonVars
            <3> QED BY <3>3, <3>4
        <2>3. CASE Head(toH[c]) \in {"register", "heartbeat"}
            <3>1. toH' = [toH EXCEPT ![c] = Tail(@)] /\ UNCHANGED <<looking, pending>>
                BY <1>6, <2>3 DEF HqReceive, Register, hqVars
            <3>2. toD' = toD \/ \E C : toD' = CloseFrames(toD, C, "close")
                BY <1>6, <2>3 DEF HqReceive, Register
            <3>3. Quieter(d)
                BY <1>a, <1>k, <2>1, <3>1, <3>2 DEF Quieter, On, daemonVars, TypeOK
            <3> QED BY <1>a, <3>3, QuieterBelief
        <2>4. CASE Head(toH[c]) = "close"
            <3>1. /\ toH' = [toH EXCEPT ![c] = << >>] /\ toD' = Delivered(toD, c, "close")
                  /\ pending' = pending \ {c} /\ looking' = looking
                BY <1>6, <2>4 DEF HqReceive, HandleDisconnect
            <3>2. Quieter(d)
                BY <1>a, <1>k, <2>1, <3>1 DEF Quieter, On, daemonVars, TypeOK
            <3> QED BY <1>a, <3>2, QuieterBelief
        <2> QED BY <1>6, <2>2, <2>3, <2>4 DEF HqReceive
    <1>7. CASE LookupAccept(c)
        <2>1. /\ c \in looking /\ looking' = looking \ {c} /\ pending' = pending \ {c}
              /\ toD' = Delivered(toD, c, "auth-accept") /\ UNCHANGED <<toH, opener, daemonVars>>
            BY <1>7 DEF LookupAccept
        <2>2. CASE d # c
            <3>1. toD'[d] = toD[d]
                BY <1>a, <2>1, <2>2 DEF Delivered, TypeOK
            <3>2. Quieter(d)
                BY <1>k, <2>1, <3>1 DEF Quieter, On, daemonVars
            <3> QED BY <1>a, <3>2, QuieterBelief
        <2>3. CASE d = c
            <3>1. ~On(c) /\ Without(toD[c], {"auth-reject"})
                BY <1>a, <2>1 DEF BeliefInv
            <3>2. toD'[c] \in {toD[c], Append(toD[c], "auth-accept")}
                BY <1>a, <2>1 DEF Delivered, TypeOK
            <3>3. Without(toD'[c], {"auth-reject"})
                <4>1. "auth-accept" \in ToDaemon /\ "auth-accept" \notin {"auth-reject"}
                    BY DEF ToDaemon
                <4> QED BY <1>a, <3>1, <3>2, <4>1, WithoutMore
            <3> QED BY <2>1, <2>3, <3>1, <3>3 DEF BeliefInv, On, daemonVars
        <2> QED BY <2>2, <2>3
    <1>8. CASE LookupReject(c) \/ LookupThrows(c)
        BY <1>8, SendRejectBelief DEF LookupReject, LookupThrows
    <1>9. CASE ServerAbort(c)
        <2>1. /\ toH' = [toH EXCEPT ![c] = << >>] /\ pending' = pending \ {c}
              /\ UNCHANGED <<toD, opener, daemonVars, looking>>
            BY <1>9 DEF ServerAbort, HandleDisconnect
        <2>2. Quieter(d)
            BY <1>a, <1>k, <2>1 DEF Quieter, On, daemonVars, TypeOK
        <2> QED BY <1>a, <2>2, QuieterBelief
    <1> QED BY <1>1, <1>2, <1>3, <1>4, <1>5, <1>6, <1>7, <1>8, <1>9 DEF ConnStep

(* Every step keeps the invariant.                                         *)
LEMMA SocketStep == SocketInv /\ [Next]_vars => SocketInv'
    <1> SUFFICES ASSUME SocketInv, [Next]_vars PROVE SocketInv'
        OBVIOUS
    <1>1. HandshakeInv' /\ TypeOK'
        BY HandshakeStep DEF SocketInv, HandshakeInv
    <1>2. ClientInv'
        BY <1>1, ClientStep DEF ClientInv
    <1>3. ASSUME NEW d \in Conn PROVE BeliefInv(d)'
        <2>a. TypeOK /\ BeliefInv(d)
            BY DEF SocketInv, ClientInv
        <2>1. CASE CheckHeartbeats
            <3>1. ~Gains(toH[d], toH[d]) /\ \A C : ~Gains(toD[d], CloseFrames(toD, C, "close")[d])
                BY <2>a, QueueQuiet
            <3>2. Quieter(d)
                BY <2>1, <3>1 DEF CheckHeartbeats, Quieter, On, daemonVars
            <3> QED BY <2>a, <3>2, QuieterBelief
        <2>2. CASE HqRestart
            <3>1. ~Gains(toD[d], toD[d]) /\ ~Gains(toH[d], << >>)
                BY <2>a, QueueQuiet
            <3>2. Quieter(d)
                BY <2>2, <3>1 DEF HqRestart, Quieter, On, daemonVars
            <3> QED BY <2>a, <3>2, QuieterBelief
        <2>3. CASE UNCHANGED vars
            BY <2>3, <2>a DEF vars, netVars, daemonVars, hqVars, BeliefInv, On
        <2> QED BY <2>1, <2>2, <2>3, DaemonStepBelief, ConnStepBelief DEF Next
    <1> QED BY <1>1, <1>2, <1>3 DEF SocketInv

-----------------------------------------------------------------------------
(* SocketInv holds in every reachable state.                               *)
THEOREM SocketInvariant == Spec => []SocketInv
    BY SocketInit, SocketStep, PTL DEF Spec

(* A running daemon always has a socket to wait on or a timer to retry.    *)
THEOREM NeverStrandedHolds == Spec => []NeverStranded
    <1>1. SocketInv => NeverStranded
        BY DEF SocketInv, ClientInv, ProcInv, NeverStranded
    <1> QED BY <1>1, SocketInvariant, PTL

(* A live client end is the current socket of its process, with no retry   *)
(* pending, and heartbeats are sent exactly over an authenticated one.     *)
THEOREM NoOrphanSocketHolds == Spec => []NoOrphanSocket
    <1>1. SocketInv => NoOrphanSocket
        <2> SUFFICES ASSUME SocketInv PROVE NoOrphanSocket
            OBVIOUS
        <2>1. ASSUME NEW c \in Conn, cEnd[c] \in {"connecting", "open"}
              PROVE  mode[opener[c]] = "running" /\ ws[opener[c]] = c /\ ~rtimer[opener[c]]
            <3>1. opener[c] \in Proc /\ c # NoConn
                BY NoConnAssumption DEF SocketInv, ClientInv, TypeOK
            <3> QED BY <2>1, <3>1 DEF SocketInv, ClientInv, EndInv, ProcInv
        <2>2. \A p \in Proc : hb[p] = authed[p] /\ (authed[p] => ws[p] # NoConn /\ cEnd[ws[p]] = "open")
            BY DEF SocketInv, ClientInv, ProcInv
        <2> QED BY <2>1, <2>2 DEF NoOrphanSocket
    <1> QED BY <1>1, SocketInvariant, PTL

(* No registration and no heartbeat reaches HQ before the socket is        *)
(* accepted, so the "Message before auth" branch never drops one.          *)
THEOREM RegistrationNotIgnoredHolds == Spec => []RegistrationNotIgnored
    <1>1. SocketInv => RegistrationNotIgnored
        <2> SUFFICES ASSUME SocketInv, NEW c \in pending
                     PROVE  \A i \in DOMAIN toH[c] : toH[c][i] \notin {"register", "heartbeat"}
            BY DEF RegistrationNotIgnored
        <2>1. c \in Conn
            BY DEF SocketInv, ClientInv, TypeOK
        <2>2. Without(toH[c], {"register"}) /\ Without(toH[c], {"heartbeat"})
            BY <2>1 DEF SocketInv, HandshakeInv, SlotInv, NotAccepted, BeliefInv
        <2> QED BY <2>2 DEF Without
    <1> QED BY <1>1, SocketInvariant, PTL
=============================================================================

-------------------------- MODULE DaemonLinkProofs --------------------------
(***************************************************************************)
(* Proofs about DaemonLink, for any number of daemons, projects, slots and *)
(* faults.                                                                 *)
(***************************************************************************)
EXTENDS DaemonLink, TLAPS

-----------------------------------------------------------------------------
(* Queues. *)

(* A queue that loses its head or gains an element stays a queue.          *)
LEMMA QueueType ==
    ASSUME NEW S, NEW q \in Seq(S), NEW m \in S
    PROVE  /\ Append(q, m) \in Seq(S)
           /\ << >> \in Seq(S)
           /\ q # << >> => Tail(q) \in Seq(S) /\ Head(q) \in S
    OBVIOUS

(* What is absent from a queue stays absent when the head is consumed or   *)
(* something else is appended.                                             *)
LEMMA WithoutStep ==
    ASSUME NEW T, NEW q \in Seq(T), NEW S, NEW m \in T
    PROVE  /\ Without(<< >>, S)
           /\ Without(q, S) /\ q # << >> => Without(Tail(q), S)
           /\ Without(q, S) /\ m \notin S => Without(Append(q, m), S)
    <1>1. Without(<< >>, S)
        BY DEF Without
    <1>2. ASSUME Without(q, S), q # << >> PROVE Without(Tail(q), S)
        BY <1>2 DEF Without
    <1>3. ASSUME Without(q, S), m \notin S PROVE Without(Append(q, m), S)
        BY <1>3 DEF Without
    <1> QED BY <1>1, <1>2, <1>3

(* A queue with at most one token keeps at most one; when the token is the *)
(* head that is consumed, none is left.                                    *)
LEMMA AtMostOneStep ==
    ASSUME NEW T, NEW q \in Seq(T), NEW S, NEW m \in T
    PROVE  /\ AtMostOne(<< >>, S)
           /\ Without(q, S) => AtMostOne(Append(q, m), S)
           /\ AtMostOne(q, S) /\ m \notin S => AtMostOne(Append(q, m), S)
           /\ AtMostOne(q, S) /\ q # << >> => AtMostOne(Tail(q), S)
           /\ AtMostOne(q, S) /\ q # << >> /\ Head(q) \in S => Without(Tail(q), S)
    <1>1. AtMostOne(<< >>, S)
        BY DEF AtMostOne
    <1>2. ASSUME Without(q, S) PROVE AtMostOne(Append(q, m), S)
        BY <1>2 DEF Without, AtMostOne
    <1>3. ASSUME AtMostOne(q, S), m \notin S PROVE AtMostOne(Append(q, m), S)
        BY <1>3 DEF AtMostOne
    <1>4. ASSUME AtMostOne(q, S), q # << >> PROVE AtMostOne(Tail(q), S)
        BY <1>4 DEF AtMostOne
    <1>5. ASSUME AtMostOne(q, S), q # << >>, Head(q) \in S PROVE Without(Tail(q), S)
        BY <1>5 DEF AtMostOne, Without
    <1> QED BY <1>1, <1>2, <1>3, <1>4, <1>5

(* A queue that holds no more handshake tokens than another one.           *)
NoMore(q, r, Tok) ==
    /\ \A S \in SUBSET Tok : Without(q, S) => Without(r, S)
    /\ AtMostOne(q, Tok) => AtMostOne(r, Tok)

LEMMA NoMoreStep ==
    ASSUME NEW T, NEW q \in Seq(T), NEW Tok, NEW m \in T
    PROVE  /\ NoMore(q, q, Tok) /\ NoMore(q, << >>, Tok)
           /\ q # << >> => NoMore(q, Tail(q), Tok)
           /\ m \notin Tok => NoMore(q, Append(q, m), Tok)
           /\ \A r, s : NoMore(q, r, Tok) /\ NoMore(r, s, Tok) => NoMore(q, s, Tok)
    <1>1. NoMore(q, q, Tok) /\ NoMore(q, << >>, Tok)
        BY DEF NoMore, Without, AtMostOne
    <1>2. ASSUME q # << >> PROVE NoMore(q, Tail(q), Tok)
        <2>1. \A S \in SUBSET Tok : Without(q, S) => Without(Tail(q), S)
            BY <1>2, WithoutStep
        <2>2. AtMostOne(q, Tok) => AtMostOne(Tail(q), Tok)
            BY <1>2, AtMostOneStep
        <2> QED BY <2>1, <2>2 DEF NoMore
    <1>3. ASSUME m \notin Tok PROVE NoMore(q, Append(q, m), Tok)
        <2>1. ASSUME NEW S \in SUBSET Tok, Without(q, S) PROVE Without(Append(q, m), S)
            BY <1>3, <2>1, WithoutStep
        <2>2. AtMostOne(q, Tok) => AtMostOne(Append(q, m), Tok)
            BY <1>3, AtMostOneStep
        <2> QED BY <2>1, <2>2 DEF NoMore
    <1>4. \A r, s : NoMore(q, r, Tok) /\ NoMore(r, s, Tok) => NoMore(q, s, Tok)
        BY DEF NoMore
    <1> QED BY <1>1, <1>2, <1>3, <1>4

-----------------------------------------------------------------------------
(* Types. *)

LEMMA SentType ==
    ASSUME TypeOK, NEW c \in Conn, NEW m \in ToHq
    PROVE  SentToHq(c, m) \in [Conn -> Seq(ToHq)]
    BY QueueType DEF SentToHq, TypeOK

LEMMA EmptiedType ==
    ASSUME TypeOK
    PROVE  /\ toD \in [Conn -> Seq(ToDaemon)]
           /\ \A c \in Conn : [toD EXCEPT ![c] = << >>] \in [Conn -> Seq(ToDaemon)]
    BY DEF TypeOK

LEMMA DeliveredType ==
    ASSUME TypeOK, NEW q \in [Conn -> Seq(ToDaemon)], NEW c \in Conn, NEW m \in ToDaemon
    PROVE  Delivered(q, c, m) \in [Conn -> Seq(ToDaemon)]
    BY QueueType DEF Delivered, TypeOK

LEMMA ClosingType ==
    ASSUME TypeOK, NEW C, NEW q \in [Conn -> Seq(ToDaemon)], NEW frame \in ToDaemon
    PROVE  /\ Closing(C) \in [Conn -> ServerEnds]
           /\ CloseFrames(q, C, frame) \in [Conn -> Seq(ToDaemon)]
    <1>1. Closing(C) \in [Conn -> ServerEnds]
        BY DEF Closing, TypeOK, ServerEnds
    <1>2. \A c \in Conn : Append(q[c], frame) \in Seq(ToDaemon)
        BY QueueType
    <1>3. CloseFrames(q, C, frame) \in [Conn -> Seq(ToDaemon)]
        BY <1>2 DEF CloseFrames
    <1> QED BY <1>1, <1>3

(* TypeOK without the environment's counter, by the part that owns it.     *)
TypeNet ==
    /\ cEnd \in [Conn -> ClientEnds] /\ sEnd \in [Conn -> ServerEnds]
    /\ toD \in [Conn -> Seq(ToDaemon)] /\ toH \in [Conn -> Seq(ToHq)]
    /\ opener \in [Conn -> Proc]
TypeDaemon ==
    /\ mode \in [Proc -> {"off", "running", "exited"}]
    /\ ws \in [Proc -> Conn \cup {NoConn}]
    /\ authed \in [Proc -> BOOLEAN] /\ hb \in [Proc -> BOOLEAN]
    /\ rtimer \in [Proc -> BOOLEAN]
TypeHq ==
    /\ pending \subseteq Conn /\ authTimer \subseteq Conn
    /\ looking \subseteq Conn /\ wsId \subseteq Conn
    /\ reg \in [Project -> Conn \cup {NoConn}]
    /\ beat \in [Project -> BOOLEAN]

LEMMA TypeParts ==
    /\ TypeOK <=> TypeNet /\ TypeDaemon /\ TypeHq /\ faults \in Nat
    /\ TypeOK' <=> TypeNet' /\ TypeDaemon' /\ TypeHq' /\ faults' \in Nat
    BY DEF TypeOK, TypeNet, TypeDaemon, TypeHq

LEMMA FaultType == ASSUME TypeOK, Fault \/ UNCHANGED faults PROVE faults' \in Nat
    BY DEF Fault, TypeOK

LEMMA ConnectType ==
    ASSUME TypeOK, NEW p \in Proc, Connect(p)
    PROVE  /\ TypeNet' /\ faults' \in Nat
           /\ ws' \in [Proc -> Conn \cup {NoConn}] /\ rtimer' \in [Proc -> BOOLEAN]
    <1>1. CASE \E c \in Conn :
              /\ cEnd' = [cEnd EXCEPT ![c] = "connecting"]
              /\ sEnd' = [sEnd EXCEPT ![c] = "none"]
              /\ opener' = [opener EXCEPT ![c] = p]
              /\ ws' = [ws EXCEPT ![p] = c]
              /\ rtimer' = [rtimer EXCEPT ![p] = FALSE]
              /\ UNCHANGED <<toD, toH, faults>>
        BY <1>1 DEF TypeOK, TypeNet, ClientEnds, ServerEnds
    <1>2. CASE /\ Fault
               /\ ws' = [ws EXCEPT ![p] = NoConn]
               /\ rtimer' = [rtimer EXCEPT ![p] = TRUE]
               /\ UNCHANGED netVars
        BY <1>2, FaultType DEF TypeOK, TypeNet, netVars
    <1> QED BY <1>1, <1>2 DEF Connect

LEMMA ClientClosedType ==
    ASSUME TypeOK, NEW c \in Conn, NEW code, ClientEndGone(c, code)
    PROVE  TypeDaemon'
    <1>1. CASE ClientClosed(opener[c], code)
        BY <1>1 DEF ClientClosed, TypeOK, TypeDaemon
    <1>2. CASE UNCHANGED daemonVars
        BY <1>2 DEF daemonVars, TypeOK, TypeDaemon
    <1> QED BY <1>1, <1>2 DEF ClientEndGone

LEMMA DisconnectType ==
    ASSUME TypeOK, NEW C \in SUBSET Conn, HandleDisconnect(C)
    PROVE  TypeHq'
    BY DEF HandleDisconnect, TypeOK, TypeHq

LEMMA RegisterType ==
    ASSUME TypeOK, NEW c \in Conn, Register(c)
    PROVE  TypeHq' /\ sEnd' \in [Conn -> ServerEnds] /\ toD' \in [Conn -> Seq(ToDaemon)]
    <1> DEFINE previous == {reg[ProjectOf(c)]} \ {c, NoConn}
    <1>1. sEnd' = Closing(previous) /\ toD' = CloseFrames(toD, previous, "close")
        BY DEF Register
    <1>2. sEnd' \in [Conn -> ServerEnds] /\ toD' \in [Conn -> Seq(ToDaemon)]
        <2>1. toD \in [Conn -> Seq(ToDaemon)] /\ "close" \in ToDaemon
            BY DEF TypeOK, ToDaemon
        <2> QED BY <1>1, <2>1, ClosingType
    <1>3. TypeHq'
        BY ProjOfAssumption DEF Register, ProjectOf, TypeOK, TypeHq
    <1> QED BY <1>2, <1>3

LEMMA TypeInit == Init => TypeOK
    BY DEF Init, TypeOK, ClientEnds, ServerEnds

LEMMA DaemonStepType ==
    ASSUME TypeOK, NEW p \in Proc, DaemonStep(p)
    PROVE  TypeOK'
    <1> USE DEF TypeNet, TypeDaemon, TypeHq
    <1>1. CASE DaemonStart(p)
        BY <1>1, ConnectType, TypeParts DEF DaemonStart, hqVars
    <1>2. CASE ReconnectTimer(p)
        BY <1>2, ConnectType, TypeParts DEF ReconnectTimer, hqVars
    <1>3. CASE HeartbeatTimer(p)
        <2>1. toH' \in [Conn -> Seq(ToHq)]
            BY <1>3, SentType DEF HeartbeatTimer, ToHq
        <2> QED BY <1>3, <2>1, TypeParts DEF HeartbeatTimer, daemonVars, hqVars
    <1>4. CASE Shutdown(p)
        <2>1. ASSUME ws[p] \in Conn PROVE TypeNet'
            <3>1. toH' \in [Conn -> Seq(ToHq)]
                BY <1>4, <2>1, SentType DEF Shutdown, ToHq
            <3>2. toD' \in [Conn -> Seq(ToDaemon)]
                BY <1>4, <2>1, EmptiedType DEF Shutdown
            <3> QED BY <1>4, <2>1, <3>1, <3>2 DEF Shutdown, TypeOK, ClientEnds, ServerEnds
        <2>2. ASSUME ws[p] \notin Conn PROVE TypeNet'
            BY <1>4, <2>2 DEF Shutdown, TypeOK
        <2>3. TypeDaemon' /\ TypeHq' /\ faults' \in Nat
            BY <1>4, FaultType DEF Shutdown, TypeOK, hqVars
        <2> QED BY <2>1, <2>2, <2>3, TypeParts
    <1>5. CASE DaemonCrash(p)
        <2>1. TypeNet'
            <3>1. toD' \in [Conn -> Seq(ToDaemon)]
                BY <1>5, EmptiedType DEF DaemonCrash, TypeOK
            <3> QED BY <1>5, <3>1, ZenonT(30) DEF DaemonCrash, TypeOK, ClientEnds, ServerEnds
        <2>2. TypeDaemon' /\ TypeHq' /\ faults' \in Nat
            BY <1>5, FaultType DEF DaemonCrash, TypeOK, hqVars
        <2> QED BY <2>1, <2>2, TypeParts
    <1> QED BY <1>1, <1>2, <1>3, <1>4, <1>5 DEF DaemonStep

LEMMA ConnStepType ==
    ASSUME TypeOK, NEW c \in Conn, ConnStep(c)
    PROVE  TypeOK'
    <1> USE DEF TypeNet, TypeDaemon, TypeHq
    <1>a. opener[c] \in Proc /\ TypeNet /\ TypeDaemon /\ TypeHq /\ faults \in Nat
        BY TypeParts DEF TypeOK
    <1>1. CASE ClientOpen(c)
        BY <1>1, <1>a, TypeParts DEF ClientOpen, daemonVars, hqVars, ClientEnds
    <1>2. CASE ClientReceive(c)
        <2>1. toD' \in [Conn -> Seq(ToDaemon)]
            <3>1. [toD EXCEPT ![c] = << >>] \in [Conn -> Seq(ToDaemon)]
                BY <1>a
            <3>2. [toD EXCEPT ![c] = Tail(toD[c])] \in [Conn -> Seq(ToDaemon)]
                BY <1>2, <1>a DEF ClientReceive
            <3> QED BY <1>2, <3>1, <3>2 DEF ClientReceive
        <2>2. toH' \in [Conn -> Seq(ToHq)]
            <3>1. \A m \in ToHq : SentToHq(c, m) \in [Conn -> Seq(ToHq)]
                BY SentType
            <3>2. {"auth-response", "register", "close"} \subseteq ToHq
                BY DEF ToHq
            <3> QED BY <1>2, <1>a, <3>1, <3>2 DEF ClientReceive
        <2>3. TypeDaemon'
            BY <1>2, <1>a, ClientClosedType DEF ClientReceive, daemonVars
        <2>4. cEnd' \in [Conn -> ClientEnds]
            BY <1>2, <1>a DEF ClientReceive, ClientEnds
        <2> QED BY <1>2, <1>a, <2>1, <2>2, <2>3, <2>4, TypeParts DEF ClientReceive, hqVars
    <1>3. CASE ClientAbort(c)
        <2>1. TypeDaemon' /\ faults' \in Nat
            BY <1>3, ClientClosedType, FaultType DEF ClientAbort
        <2>2. TypeNet'
            BY <1>3, <1>a DEF ClientAbort, ClientEnds, ServerEnds
        <2> QED BY <1>3, <1>a, <2>1, <2>2, TypeParts DEF ClientAbort, hqVars
    <1>4. CASE HandleConnection(c)
        BY <1>4, <1>a, TypeParts, QueueType DEF HandleConnection, daemonVars, ServerEnds, ToDaemon
    <1>5. CASE AuthTimeout(c)
        <2>1. sEnd' \in [Conn -> ServerEnds] /\ toD' \in [Conn -> Seq(ToDaemon)]
            BY <1>5, <1>a, ClosingType DEF AuthTimeout, ToDaemon
        <2> QED BY <1>5, <1>a, <2>1, FaultType, TypeParts DEF AuthTimeout, daemonVars
    <1>6. CASE HqReceive(c)
        <2>1. toH' \in [Conn -> Seq(ToHq)]
            <3>1. [toH EXCEPT ![c] = << >>] \in [Conn -> Seq(ToHq)]
                BY <1>a
            <3>2. [toH EXCEPT ![c] = Tail(toH[c])] \in [Conn -> Seq(ToHq)]
                BY <1>6, <1>a DEF HqReceive
            <3> QED BY <1>6, <3>1, <3>2 DEF HqReceive
        <2>2. sEnd' \in [Conn -> ServerEnds] /\ toD' \in [Conn -> Seq(ToDaemon)]
            <3>1. Delivered(toD, c, "close") \in [Conn -> Seq(ToDaemon)]
                BY <1>a, DeliveredType DEF ToDaemon
            <3>2. [sEnd EXCEPT ![c] = "closed"] \in [Conn -> ServerEnds]
                BY <1>a DEF ServerEnds
            <3> QED BY <1>6, <1>a, <3>1, <3>2, RegisterType DEF HqReceive
        <2>3. TypeHq'
            BY <1>6, <1>a, RegisterType, DisconnectType, ZenonT(30) DEF HqReceive, hqVars
        <2> QED BY <1>6, <1>a, <2>1, <2>2, <2>3, TypeParts DEF HqReceive, daemonVars
    <1>7. CASE LookupAccept(c)
        <2>1. toD' \in [Conn -> Seq(ToDaemon)]
            BY <1>7, <1>a, DeliveredType DEF LookupAccept, ToDaemon
        <2> QED BY <1>7, <1>a, <2>1, TypeParts DEF LookupAccept, daemonVars
    <1>8. ASSUME SendReject(c), faults' \in Nat PROVE TypeOK'
        <2>1. Delivered(toD, c, "auth-reject") \in [Conn -> Seq(ToDaemon)]
            BY <1>a, DeliveredType DEF ToDaemon
        <2>2. sEnd' \in [Conn -> ServerEnds] /\ toD' \in [Conn -> Seq(ToDaemon)]
            BY <1>8, <2>1, ClosingType DEF SendReject, ToDaemon
        <2> QED BY <1>8, <1>a, <2>2, TypeParts DEF SendReject, daemonVars
    <1>9. CASE LookupReject(c)
        BY <1>8, <1>9, <1>a DEF LookupReject
    <1>10. CASE LookupThrows(c)
        BY <1>8, <1>10, FaultType DEF LookupThrows
    <1>11. CASE ServerAbort(c)
        BY <1>11, <1>a, DisconnectType, FaultType, TypeParts, QueueType
        DEF ServerAbort, daemonVars, ServerEnds
    <1> QED BY <1>1, <1>2, <1>3, <1>4, <1>5, <1>6, <1>7, <1>9, <1>10, <1>11 DEF ConnStep

LEMMA TypeStep == TypeOK /\ [Next]_vars => TypeOK'
    <1> SUFFICES ASSUME TypeOK, [Next]_vars PROVE TypeOK'
        OBVIOUS
    <1> USE DEF TypeNet, TypeDaemon, TypeHq
    <1>1. ASSUME NEW p \in Proc, DaemonStep(p) PROVE TypeOK'
        BY <1>1, DaemonStepType
    <1>2. ASSUME NEW c \in Conn, ConnStep(c) PROVE TypeOK'
        BY <1>2, ConnStepType
    <1>3. CASE CheckHeartbeats
        <2>1. sEnd' \in [Conn -> ServerEnds] /\ toD' \in [Conn -> Seq(ToDaemon)]
            BY <1>3, ClosingType DEF CheckHeartbeats, ToDaemon, TypeOK
        <2> QED BY <1>3, <2>1, FaultType, TypeParts DEF CheckHeartbeats, daemonVars
    <1>4. CASE HqRestart
        BY <1>4, FaultType, TypeParts, QueueType DEF HqRestart, daemonVars, ServerEnds
    <1>5. CASE UNCHANGED vars
        BY <1>5 DEF vars, netVars, daemonVars, hqVars, TypeOK
    <1> QED BY <1>1, <1>2, <1>3, <1>4, <1>5 DEF Next

(* Every variable keeps its type in every behaviour.                       *)
THEOREM TypeCorrect == Spec => []TypeOK
    BY TypeInit, TypeStep, PTL DEF Spec

-----------------------------------------------------------------------------
(* The handshake invariant: frame conditions. *)

(* What a slot's invariant reads.                                          *)
SameSlot(d) ==
    /\ toD'[d] = toD[d] /\ toH'[d] = toH[d]
    /\ sEnd'[d] = sEnd[d] /\ cEnd'[d] = cEnd[d]
    /\ d \in pending' <=> d \in pending
    /\ d \in looking' <=> d \in looking
    /\ d \in wsId' <=> d \in wsId

LEMMA SlotFrame ==
    ASSUME NEW d \in Conn, SlotInv(d), SameSlot(d)
    PROVE  SlotInv(d)'
    BY DEF SlotInv, SameSlot, OneToken, NotAccepted

(* A slot that gains no token keeps at most one.                           *)
Fewer(d) ==
    /\ NoMore(toD[d], toD'[d], TokD) /\ NoMore(toH[d], toH'[d], TokH)
    /\ d \in looking' => d \in looking
    /\ d \in wsId' => d \in wsId

LEMMA TokensShrink ==
    ASSUME NEW d \in Conn, OneToken(d), Fewer(d)
    PROVE  OneToken(d)' /\ (NotAccepted(d) => NotAccepted(d)')
    <1>1. Without(toD[d], TokD) => Without(toD'[d], TokD)
        BY DEF Fewer, NoMore
    <1>2. Without(toH[d], TokH) => Without(toH'[d], TokH)
        BY DEF Fewer, NoMore
    <1>3. AtMostOne(toD'[d], TokD) /\ AtMostOne(toH'[d], TokH)
        BY DEF Fewer, NoMore, OneToken
    <1>4. OneToken(d)'
        BY <1>1, <1>2, <1>3 DEF OneToken, Fewer
    <1>5. NotAccepted(d) => NotAccepted(d)'
        BY DEF Fewer, NoMore, NotAccepted, TokD, TokH
    <1> QED BY <1>4, <1>5

(* A step that leaves the registry alone and changes no open server end    *)
(* preserves what the registry promises.                                   *)
SameRegistry ==
    /\ UNCHANGED <<pending, authTimer, wsId, reg>>
    /\ \A d \in Conn : sEnd[d] = "open" <=> sEnd'[d] = "open"
    /\ \A d \in Conn : sEnd[d] = "open" => opener'[d] = opener[d]

LEMMA RegistryFrame ==
    ASSUME HandshakeInv, SameRegistry
    PROVE  AuthTimerExactlyPending' /\ EntryUsable' /\ OneLiveSocket'
    <1>1. AuthTimerExactlyPending'
        BY DEF HandshakeInv, SameRegistry, AuthTimerExactlyPending
    <1>2. EntryUsable'
        BY DEF HandshakeInv, SameRegistry, EntryUsable, ProjectOf, TypeOK
    <1>3. OneLiveSocket'
        BY DEF HandshakeInv, SameRegistry, OneLiveSocket, ProjectOf, TypeOK
    <1> QED BY <1>1, <1>2, <1>3

-----------------------------------------------------------------------------
(* The handshake invariant: the daemon's steps. *)

LEMMA ConnectInv ==
    ASSUME HandshakeInv, NEW p \in Proc, Connect(p), UNCHANGED hqVars, TypeOK'
    PROVE  HandshakeInv'
    <1>1. CASE UNCHANGED netVars
        <2>1. SameRegistry /\ \A d \in Conn : SameSlot(d)
            BY <1>1 DEF SameRegistry, SameSlot, netVars, hqVars
        <2> QED BY <2>1, SlotFrame, RegistryFrame DEF HandshakeInv
    <1>2. ASSUME NEW c \in Conn, Free(c),
                 cEnd' = [cEnd EXCEPT ![c] = "connecting"],
                 sEnd' = [sEnd EXCEPT ![c] = "none"],
                 opener' = [opener EXCEPT ![c] = p],
                 UNCHANGED <<toD, toH, faults>>
          PROVE  HandshakeInv'
        <2>1. TypeOK /\ SlotInv(c)
            BY DEF HandshakeInv
        <2>2. SameRegistry
            BY <1>2, <2>1 DEF SameRegistry, Free, TypeOK, hqVars
        <2>3. ASSUME NEW d \in Conn PROVE SlotInv(d)'
            <3>1. CASE d # c
                <4>1. SameSlot(d)
                    BY <1>2, <2>1, <3>1 DEF SameSlot, TypeOK, hqVars
                <4> QED BY <4>1, SlotFrame DEF HandshakeInv
            <3>2. CASE d = c
                <4>1. c \notin pending /\ c \notin wsId /\ c \notin looking
                    BY <1>2, <2>1 DEF SlotInv, Free
                <4>2. toD'[c] = << >> /\ toH'[c] = << >> /\ sEnd'[c] = "none"
                      /\ cEnd'[c] = "connecting"
                    BY <1>2, <2>1 DEF Free, TypeOK
                <4>3. \A S : Without(<< >>, S) /\ AtMostOne(<< >>, S)
                    BY DEF Without, AtMostOne
                <4> QED BY <3>2, <4>1, <4>2, <4>3 DEF SlotInv, OneToken, NotAccepted, hqVars
            <3> QED BY <3>1, <3>2
        <2> QED BY <2>2, <2>3, RegistryFrame DEF HandshakeInv
    <1> QED BY <1>1, <1>2 DEF Connect

(* The daemon's end may go, empty its queue and send frames that are not   *)
(* part of the handshake.                                                  *)
DaemonSide(d, m) ==
    /\ toD'[d] \in {toD[d], << >>}
    /\ toH'[d] = toH[d] \/ (toH'[d] = Append(toH[d], m) /\ sEnd[d] # "none")
    /\ sEnd'[d] = sEnd[d] \/ (sEnd[d] = "none" /\ sEnd'[d] = "closed")
    /\ sEnd'[d] = "none" => cEnd'[d] = cEnd[d]
    /\ UNCHANGED <<pending, looking, wsId>>

LEMMA DaemonSideInv ==
    ASSUME TypeOK, NEW d \in Conn, SlotInv(d),
           NEW m \in ToHq, m \notin TokH, DaemonSide(d, m)
    PROVE  SlotInv(d)'
    <1>1. toD[d] \in Seq(ToDaemon) /\ toH[d] \in Seq(ToHq) /\ "close" \in ToDaemon
        BY DEF TypeOK, ToDaemon
    <1>2. NoMore(toD[d], toD'[d], TokD)
        BY <1>1, NoMoreStep DEF DaemonSide
    <1>3. NoMore(toH[d], Append(toH[d], m), TokH) /\ NoMore(toH[d], toH[d], TokH)
        BY <1>1, NoMoreStep
    <1>4. Fewer(d)
        BY <1>2, <1>3 DEF Fewer, DaemonSide
    <1> QED BY <1>4, TokensShrink DEF SlotInv, DaemonSide

(* A step of the daemon's side on slot c only.                             *)
LEMMA DaemonSideStep ==
    ASSUME HandshakeInv, TypeOK', NEW c \in Conn, NEW m \in ToHq, m \notin TokH,
           DaemonSide(c, m), UNCHANGED hqVars, UNCHANGED opener,
           \A d \in Conn \ {c} : SameSlot(d)
    PROVE  HandshakeInv'
    <1>1. TypeOK /\ SlotInv(c)
        BY DEF HandshakeInv
    <1>2. SameRegistry
        BY <1>1 DEF SameRegistry, SameSlot, DaemonSide, hqVars
    <1>3. \A d \in Conn : SlotInv(d)'
        BY <1>1, SlotFrame, DaemonSideInv DEF HandshakeInv
    <1> QED BY <1>2, <1>3, RegistryFrame DEF HandshakeInv

LEMMA DaemonStepInv ==
    ASSUME HandshakeInv, NEW p \in Proc, DaemonStep(p), TypeOK'
    PROVE  HandshakeInv'
    <1> DEFINE c == ws[p]
    <1>a. TypeOK /\ (c \in Conn => SlotInv(c))
        BY DEF HandshakeInv
    <1>b. {"heartbeat", "close"} \subseteq ToHq \ TokH
        BY DEF ToHq, TokH
    <1>1. CASE DaemonStart(p)
        BY <1>1, ConnectInv DEF DaemonStart
    <1>2. CASE ReconnectTimer(p)
        BY <1>2, ConnectInv DEF ReconnectTimer
    <1>3. CASE HeartbeatTimer(p)
        <2>1. c \in Conn /\ DaemonSide(c, "heartbeat")
            BY <1>3, <1>a DEF HeartbeatTimer, SentToHq, DaemonSide, SlotInv, TypeOK, hqVars
        <2>2. \A d \in Conn \ {c} : SameSlot(d)
            BY <1>3, <1>a DEF HeartbeatTimer, SentToHq, SameSlot, TypeOK, hqVars
        <2> QED BY <1>3, <1>b, <2>1, <2>2, DaemonSideStep DEF HeartbeatTimer
    <1>4. CASE Shutdown(p)
        <2>1. CASE c \in Conn
            <3>1. DaemonSide(c, "close")
                BY <1>4, <1>a, <2>1 DEF Shutdown, SentToHq, DaemonSide, SlotInv, TypeOK, hqVars
            <3>2. \A d \in Conn \ {c} : SameSlot(d)
                BY <1>4, <1>a, <2>1 DEF Shutdown, SentToHq, SameSlot, TypeOK, hqVars
            <3> QED BY <1>4, <1>b, <2>1, <3>1, <3>2, DaemonSideStep DEF Shutdown
        <2>2. CASE c \notin Conn
            <3>1. SameRegistry /\ \A d \in Conn : SameSlot(d)
                BY <1>4, <2>2 DEF Shutdown, SameRegistry, SameSlot, hqVars
            <3> QED BY <3>1, SlotFrame, RegistryFrame DEF HandshakeInv
        <2> QED BY <2>1, <2>2
    <1>5. CASE DaemonCrash(p)
        <2>1. CASE c \in Conn
            <3>1. DaemonSide(c, "close")
                BY <1>5, <1>a, <2>1 DEF DaemonCrash, DaemonSide, SlotInv, TypeOK, hqVars
            <3>2. \A d \in Conn \ {c} : SameSlot(d)
                BY <1>5, <1>a, <2>1 DEF DaemonCrash, SameSlot, TypeOK, hqVars
            <3> QED BY <1>5, <1>b, <2>1, <3>1, <3>2, DaemonSideStep DEF DaemonCrash
        <2>2. CASE c \notin Conn
            <3>1. SameRegistry /\ \A d \in Conn : SameSlot(d)
                BY <1>5, <2>2 DEF DaemonCrash, SameRegistry, SameSlot, hqVars
            <3> QED BY <3>1, SlotFrame, RegistryFrame DEF HandshakeInv
        <2> QED BY <2>1, <2>2
    <1> QED BY <1>1, <1>2, <1>3, <1>4, <1>5 DEF DaemonStep

(* The client consumes a frame and may answer it.                          *)
LEMMA ClientReceiveInv ==
    ASSUME HandshakeInv, NEW c \in Conn, ClientReceive(c), TypeOK'
    PROVE  HandshakeInv'
    <1> DEFINE q == toD[c]
    <1> DEFINE h == toH[c]
    <1>a. TypeOK /\ SlotInv(c) /\ q # << >> /\ q \in Seq(ToDaemon) /\ h \in Seq(ToHq)
        BY DEF HandshakeInv, ClientReceive, TypeOK
    <1>b. UNCHANGED hqVars /\ UNCHANGED opener /\ UNCHANGED sEnd
        BY DEF ClientReceive
    <1>c. \A d \in Conn \ {c} : SameSlot(d)
        BY <1>a DEF ClientReceive, SentToHq, SameSlot, TypeOK, hqVars
    <1>d. sEnd[c] # "none"
        BY <1>a DEF SlotInv
    <1>1. CASE Head(q) \in {"close", "close-4001"}
        <2>1. DaemonSide(c, "close")
            BY <1>1, <1>a, <1>b, <1>d DEF ClientReceive, SentToHq, DaemonSide, TypeOK, hqVars
        <2> QED BY <1>b, <1>c, <2>1, DaemonSideStep DEF ToHq, TokH
    <1>2. CASE Head(q) \notin {"close", "close-4001"}
        <2>1. toD'[c] = Tail(q)
            BY <1>2, <1>a DEF ClientReceive, TypeOK
        <2>2. Without(q, TokD) => Head(q) \notin TokD
            BY <1>a DEF Without
        <2>3. Without(q, {"auth-accept"}) => Head(q) # "auth-accept"
            BY <1>a DEF Without
        <2>4. NoMore(q, Tail(q), TokD)
            <3>1. Head(q) \in ToDaemon
                BY <1>a
            <3> QED BY <1>a, <3>1, NoMoreStep
        <2>5. Head(q) \in TokD => Without(Tail(q), TokD)
            BY <1>a, AtMostOneStep DEF SlotInv, OneToken
        <2>6. CASE toH'[c] = h
            <3>1. Fewer(c)
                BY <1>b, <2>1, <2>4, <2>6, <1>a, NoMoreStep DEF Fewer, NoMore, hqVars
            <3>2. SlotInv(c)'
                BY <1>a, <1>b, <1>d, <3>1, TokensShrink DEF SlotInv, hqVars
            <3>3. \A d \in Conn : SlotInv(d)'
                BY <1>c, <3>2, SlotFrame DEF HandshakeInv
            <3> QED BY <1>b, <3>3, RegistryFrame DEF HandshakeInv, SameRegistry, hqVars
        <2>7. ASSUME NEW m \in TokH, toH'[c] = Append(h, m),
                     Head(q) = IF m = "register" THEN "auth-accept" ELSE "auth-challenge"
              PROVE  HandshakeInv'
            <3>1. Head(q) \in TokD
                BY <2>7 DEF TokD
            <3>2. Without(h, TokH) /\ c \notin looking /\ c \notin wsId
                BY <1>a, <2>2, <3>1 DEF SlotInv, OneToken
            <3>3. Without(Tail(q), TokD) /\ AtMostOne(Tail(q), TokD)
                BY <2>5, <3>1 DEF Without, AtMostOne
            <3>4. AtMostOne(Append(h, m), TokH)
                BY <1>a, <3>2, AtMostOneStep DEF ToHq, TokH
            <3>5. OneToken(c)'
                BY <1>b, <2>1, <2>7, <3>2, <3>3, <3>4 DEF OneToken, hqVars
            <3>6. ASSUME NotAccepted(c) PROVE NotAccepted(c)'
                <4>1. m # "register"
                    BY <2>3, <2>7, <3>6 DEF NotAccepted
                <4>2. Without(Append(h, m), {"register"})
                    BY <1>a, <3>6, <4>1, WithoutStep DEF NotAccepted, ToHq, TokH
                <4>3. Without(Tail(q), {"auth-accept"})
                    BY <1>a, <3>6, WithoutStep DEF NotAccepted, ToDaemon
                <4> QED BY <2>1, <2>7, <4>2, <4>3 DEF NotAccepted
            <3>7. SlotInv(c)'
                BY <1>a, <1>b, <1>d, <3>5, <3>6 DEF SlotInv, hqVars
            <3>8. \A d \in Conn : SlotInv(d)'
                BY <1>c, <3>7, SlotFrame DEF HandshakeInv
            <3> QED BY <1>b, <3>8, RegistryFrame DEF HandshakeInv, SameRegistry, hqVars
        <2>8. \/ toH'[c] = h
              \/ \E m \in TokH :
                    /\ toH'[c] = Append(h, m)
                    /\ Head(q) = IF m = "register" THEN "auth-accept" ELSE "auth-challenge"
            BY <1>2, <1>a DEF ClientReceive, SentToHq, TypeOK, TokH
        <2> QED BY <2>6, <2>7, <2>8
    <1> QED BY <1>1, <1>2

-----------------------------------------------------------------------------
(* The handshake invariant: HQ's steps. *)

(* Closing sockets adds no token and leaves the other slots alone.         *)
LEMMA CloseFramesStep ==
    ASSUME TypeOK, NEW C, NEW q \in [Conn -> Seq(ToDaemon)],
           NEW frame \in {"close", "close-4001"}, NEW d \in Conn
    PROVE  /\ NoMore(q[d], CloseFrames(q, C, frame)[d], TokD)
           /\ d \notin C => CloseFrames(q, C, frame)[d] = q[d] /\ Closing(C)[d] = sEnd[d]
           /\ sEnd[d] # "open" => CloseFrames(q, C, frame)[d] = q[d] /\ Closing(C)[d] = sEnd[d]
           /\ d \in C /\ sEnd[d] = "open" => Closing(C)[d] = "closing"
    <1>1. frame \in ToDaemon /\ frame \notin TokD
        BY DEF ToDaemon, TokD
    <1>2. NoMore(q[d], q[d], TokD) /\ NoMore(q[d], Append(q[d], frame), TokD)
        BY <1>1, NoMoreStep
    <1> QED BY <1>2 DEF CloseFrames, Closing

(* A pending socket is dismissed: out of pending, and closing.             *)
LEMMA DismissInv ==
    ASSUME HandshakeInv, TypeOK', NEW c \in pending,
           pending' = pending \ {c}, authTimer' = authTimer \ {c},
           looking' \in {looking, looking \ {c}},
           UNCHANGED <<wsId, reg, opener, cEnd, toH>>,
           sEnd' = Closing({c}),
           NoMore(toD[c], toD'[c], TokD),
           \A d \in Conn \ {c} : toD'[d] = toD[d]
    PROVE  HandshakeInv'
    <1>a. TypeOK /\ c \in Conn /\ SlotInv(c) /\ sEnd[c] = "open"
        BY DEF HandshakeInv, TypeOK, SlotInv
    <1>b. sEnd' = [sEnd EXCEPT ![c] = "closing"]
        BY <1>a DEF Closing, TypeOK
    <1>1. AuthTimerExactlyPending'
        BY DEF HandshakeInv, AuthTimerExactlyPending
    <1>2. EntryUsable'
        <2>1. \A j \in Project : reg[j] # NoConn => reg[j] # c
            BY DEF HandshakeInv, EntryUsable
        <2>2. \A j \in Project : reg[j] # NoConn => reg[j] \in Conn /\ sEnd'[reg[j]] = "open"
            BY <1>a, <1>b, <2>1, ZenonT(30) DEF HandshakeInv, EntryUsable, TypeOK
        <2> QED BY <2>1, <2>2 DEF HandshakeInv, EntryUsable, ProjectOf
    <1>3. OneLiveSocket'
        BY <1>a, <1>b DEF HandshakeInv, OneLiveSocket, ProjectOf, TypeOK
    <1>4. SlotInv(c)'
        <2>1. NoMore(toH[c], toH[c], TokH)
            BY DEF NoMore
        <2>2. Fewer(c)
            BY <2>1 DEF Fewer
        <2> QED BY <1>a, <1>b, <2>2, TokensShrink DEF SlotInv, TypeOK
    <1>5. ASSUME NEW d \in Conn \ {c} PROVE SlotInv(d)'
        <2>1. SameSlot(d)
            BY <1>a, <1>b DEF SameSlot, TypeOK
        <2> QED BY <2>1, SlotFrame DEF HandshakeInv
    <1> QED BY <1>1, <1>2, <1>3, <1>4, <1>5 DEF HandshakeInv

(* A server end is gone: handleDisconnect.                                 *)
LEMMA DisconnectInv ==
    ASSUME HandshakeInv, TypeOK', NEW c \in Conn, HandleDisconnect({c}),
           sEnd' = [sEnd EXCEPT ![c] = "closed"],
           toH' = [toH EXCEPT ![c] = << >>],
           UNCHANGED <<opener, cEnd>>,
           NoMore(toD[c], toD'[c], TokD),
           \A d \in Conn \ {c} : toD'[d] = toD[d]
    PROVE  HandshakeInv'
    <1>a. TypeOK /\ SlotInv(c)
        BY DEF HandshakeInv
    <1>1. AuthTimerExactlyPending'
        BY DEF HandshakeInv, AuthTimerExactlyPending, HandleDisconnect
    <1>2. EntryUsable'
        BY <1>a, NoConnAssumption DEF HandshakeInv, EntryUsable, ProjectOf, TypeOK, HandleDisconnect
    <1>3. OneLiveSocket'
        BY <1>a, ProjOfAssumption
        DEF HandshakeInv, OneLiveSocket, ProjectOf, TypeOK, HandleDisconnect
    <1>4. SlotInv(c)'
        <2>1. NoMore(toH[c], << >>, TokH)
            BY DEF NoMore, Without, AtMostOne
        <2>2. Fewer(c)
            BY <1>a, <2>1 DEF Fewer, HandleDisconnect, TypeOK
        <2> QED BY <1>a, <2>2, TokensShrink DEF SlotInv, TypeOK, HandleDisconnect
    <1>5. ASSUME NEW d \in Conn \ {c} PROVE SlotInv(d)'
        <2>1. SameSlot(d)
            BY <1>a DEF SameSlot, TypeOK, HandleDisconnect
        <2> QED BY <2>1, SlotFrame DEF HandshakeInv
    <1> QED BY <1>1, <1>2, <1>3, <1>4, <1>5 DEF HandshakeInv

(* A registered socket is closed by HQ: its handshake is long over.        *)
LEMMA RetireSlot ==
    ASSUME HandshakeInv, NEW d \in wsId, sEnd'[d] \in {sEnd[d], "closing"},
           NoMore(toD[d], toD'[d], TokD), toH'[d] = toH[d], cEnd'[d] = cEnd[d],
           UNCHANGED <<pending, looking>>, d \in wsId'
    PROVE  SlotInv(d)'
    <1>a. TypeOK /\ d \in Conn /\ SlotInv(d)
        BY DEF HandshakeInv, TypeOK
    <1>1. NoMore(toH[d], toH[d], TokH)
        BY DEF NoMore
    <1>2. Fewer(d)
        BY <1>1 DEF Fewer
    <1>3. NotAccepted(d)
        BY <1>a DEF SlotInv, OneToken, NotAccepted, Without, TokD, TokH
    <1> QED BY <1>a, <1>2, <1>3, TokensShrink DEF SlotInv

LEMMA RegisterInv ==
    ASSUME HandshakeInv, TypeOK', NEW c \in Conn, c \notin pending, sEnd[c] = "open",
           toH[c] # << >>, Head(toH[c]) = "register",
           toH' = [toH EXCEPT ![c] = Tail(toH[c])],
           Register(c), UNCHANGED <<opener, cEnd>>
    PROVE  HandshakeInv'
    <1> DEFINE j == ProjectOf(c)
    <1> DEFINE previous == {reg[j]} \ {c, NoConn}
    <1>a. TypeOK /\ SlotInv(c) /\ toH[c] \in Seq(ToHq) /\ j \in Project
        BY ProjOfAssumption DEF HandshakeInv, TypeOK, ProjectOf
    <1>b. /\ wsId' = wsId \cup {c} /\ reg' = [reg EXCEPT ![j] = c]
          /\ sEnd' = Closing(previous) /\ toD' = CloseFrames(toD, previous, "close")
          /\ UNCHANGED <<pending, authTimer, looking>>
        BY DEF Register
    <1>c. toD \in [Conn -> Seq(ToDaemon)]
        BY <1>a DEF TypeOK
    <1>1. AuthTimerExactlyPending'
        BY <1>b DEF HandshakeInv, AuthTimerExactlyPending
    <1>2. EntryUsable'
        <2>1. ASSUME NEW k \in Project, reg'[k] # NoConn
              PROVE  /\ reg'[k] \in Conn \ previous /\ sEnd[reg'[k]] = "open"
                     /\ reg'[k] \in wsId' \ pending /\ ProjectOf(reg'[k]) = k
            <3>1. CASE k = j
                BY <1>a, <1>b, <3>1 DEF TypeOK
            <3>2. CASE k # j
                BY <1>a, <1>b, <2>1, <3>2 DEF HandshakeInv, EntryUsable, TypeOK
            <3> QED BY <3>1, <3>2
        <2>2. \A d \in Conn \ previous : sEnd'[d] = sEnd[d]
            BY <1>b DEF Closing
        <2> QED BY <1>b, <2>1, <2>2 DEF EntryUsable, ProjectOf
    <1>3. OneLiveSocket'
        <2>1. ASSUME NEW d \in wsId', sEnd'[d] = "open" PROVE reg'[ProjectOf(d)] = d
            <3>1. CASE d = c
                BY <1>a, <1>b, <3>1 DEF TypeOK
            <3>2. CASE d # c
                <4>1. d \in Conn /\ d \in wsId /\ sEnd[d] = "open" /\ d \notin previous
                    BY <1>a, <1>b, <2>1, <3>2 DEF TypeOK, Closing
                <4>2. reg[ProjectOf(d)] = d
                    BY <4>1 DEF HandshakeInv, OneLiveSocket
                <4>3. ProjectOf(d) # j
                    BY <3>2, <4>1, <4>2, NoConnAssumption
                <4> QED BY <1>a, <1>b, <4>2, <4>3 DEF TypeOK
            <3> QED BY <3>1, <3>2
        <2> QED BY <2>1 DEF OneLiveSocket, ProjectOf
    <1>4. SlotInv(c)'
        <2>1. ~Without(toH[c], TokH)
            BY <1>a DEF Without, TokH
        <2>2. Without(toD[c], TokD) /\ c \notin looking
            BY <1>a, <2>1 DEF SlotInv, OneToken
        <2>3. Without(Tail(toH[c]), TokH)
            BY <1>a, AtMostOneStep DEF SlotInv, OneToken, ToHq, TokH
        <2>4. sEnd'[c] = sEnd[c] /\ toD'[c] = toD[c] /\ toH'[c] = Tail(toH[c])
            BY <1>a, <1>b, <1>c, CloseFramesStep DEF TypeOK
        <2>5. AtMostOne(toD[c], TokD) /\ AtMostOne(Tail(toH[c]), TokH)
            BY <2>2, <2>3 DEF Without, AtMostOne
        <2>6. OneToken(c)'
            BY <1>b, <2>2, <2>3, <2>4, <2>5 DEF OneToken
        <2> QED BY <1>a, <1>b, <2>4, <2>6 DEF SlotInv, TypeOK
    <1>5. ASSUME NEW d \in Conn \ {c} PROVE SlotInv(d)'
        <2>1. toH'[d] = toH[d] /\ cEnd'[d] = cEnd[d] /\ (d \in wsId' <=> d \in wsId)
            BY <1>a, <1>b DEF TypeOK
        <2>2. CASE d \in previous
            <3>1. d \in wsId /\ sEnd'[d] \in {sEnd[d], "closing"}
                BY <1>a, <1>b, <2>2 DEF HandshakeInv, EntryUsable, Closing
            <3>2. NoMore(toD[d], toD'[d], TokD)
                BY <1>a, <1>b, <1>c, CloseFramesStep
            <3> QED BY <1>b, <2>1, <3>1, <3>2, RetireSlot
        <2>3. CASE d \notin previous
            <3>1. SameSlot(d)
                BY <1>a, <1>b, <1>c, <2>1, <2>3, CloseFramesStep DEF SameSlot
            <3> QED BY <3>1, SlotFrame DEF HandshakeInv
        <2> QED BY <2>2, <2>3
    <1> QED BY <1>1, <1>2, <1>3, <1>4, <1>5 DEF HandshakeInv

LEMMA HqReceiveInv ==
    ASSUME HandshakeInv, NEW c \in Conn, HqReceive(c), TypeOK'
    PROVE  HandshakeInv'
    <1> DEFINE q == toD[c]
    <1> DEFINE h == toH[c]
    <1>a. TypeOK /\ SlotInv(c) /\ h # << >> /\ h \in Seq(ToHq) /\ q \in Seq(ToDaemon)
          /\ sEnd[c] \in {"open", "closing"} /\ Head(h) \in ToHq
        BY DEF HandshakeInv, HqReceive, TypeOK
    <1>b. UNCHANGED <<cEnd, opener>>
        BY DEF HqReceive
    <1>c. NoMore(q, q, TokD) /\ NoMore(h, Tail(h), TokH)
        <2>1. NoMore(q, q, TokD)
            BY DEF NoMore
        <2>2. NoMore(h, Tail(h), TokH)
            BY <1>a, NoMoreStep
        <2> QED BY <2>1, <2>2
    <1>1. CASE Head(h) \in {"auth-response", "heartbeat"}
        <2>1. /\ toH' = [toH EXCEPT ![c] = Tail(h)]
              /\ UNCHANGED <<sEnd, toD, pending, authTimer, wsId, reg>>
              /\ looking' \in {looking, looking \cup {c}}
              /\ c \in looking' => c \in looking \/ (c \in pending /\ Head(h) = "auth-response")
            BY <1>1, <1>a DEF HqReceive
        <2>2. SlotInv(c)'
            <3>1. CASE c \in looking' => c \in looking
                <4>1. Fewer(c)
                    BY <1>a, <1>c, <2>1, <3>1 DEF Fewer, TypeOK
                <4> QED BY <1>a, <1>b, <2>1, <3>1, <4>1, TokensShrink DEF SlotInv, TypeOK
            <3>2. CASE c \in pending /\ Head(h) = "auth-response"
                <4>1. Head(h) \in TokH /\ ~Without(h, TokH)
                    BY <1>a, <3>2 DEF Without, TokH
                <4>2. Without(q, TokD) /\ c \notin wsId
                    BY <1>a, <4>1 DEF SlotInv, OneToken
                <4>3. Without(Tail(h), TokH)
                    BY <1>a, <4>1, AtMostOneStep DEF SlotInv, OneToken
                <4>4. AtMostOne(q, TokD) /\ AtMostOne(Tail(h), TokH)
                    BY <4>2, <4>3 DEF Without, AtMostOne
                <4>5. toH'[c] = Tail(h) /\ sEnd'[c] = "open"
                    BY <1>a, <2>1, <3>2 DEF TypeOK, SlotInv
                <4>6. OneToken(c)'
                    BY <2>1, <4>2, <4>3, <4>4, <4>5 DEF OneToken
                <4>7. NotAccepted(c)'
                    BY <2>1, <4>2, <4>3, <4>5 DEF NotAccepted, Without, TokD, TokH
                <4> QED BY <1>a, <2>1, <3>2, <4>2, <4>5, <4>6, <4>7 DEF SlotInv
            <3> QED BY <2>1, <3>1, <3>2
        <2>3. ASSUME NEW d \in Conn \ {c} PROVE SlotInv(d)'
            <3>1. SameSlot(d)
                BY <1>a, <1>b, <2>1 DEF SameSlot, TypeOK
            <3> QED BY <3>1, SlotFrame DEF HandshakeInv
        <2>4. SameRegistry
            BY <1>b, <2>1 DEF SameRegistry
        <2> QED BY <2>2, <2>3, <2>4, RegistryFrame DEF HandshakeInv
    <1>2. CASE Head(h) = "register"
        <2>1. ~Without(h, {"register"})
            BY <1>a, <1>2 DEF Without
        <2>2. c \notin pending /\ sEnd[c] = "open"
            BY <1>a, <2>1 DEF SlotInv, NotAccepted
        <2>3. Register(c) /\ toH' = [toH EXCEPT ![c] = Tail(toH[c])]
            BY <1>2, <2>2 DEF HqReceive
        <2> QED BY <1>a, <1>b, <1>2, <2>2, <2>3, RegisterInv
    <1>3. CASE Head(h) = "close"
        <2>1. /\ sEnd' = [sEnd EXCEPT ![c] = "closed"]
              /\ toH' = [toH EXCEPT ![c] = << >>]
              /\ toD' = Delivered(toD, c, "close") /\ HandleDisconnect({c})
            BY <1>3 DEF HqReceive
        <2>2. NoMore(q, Append(q, "close"), TokD)
            BY <1>a, NoMoreStep DEF ToDaemon, TokD
        <2>3. NoMore(q, toD'[c], TokD) /\ \A d \in Conn \ {c} : toD'[d] = toD[d]
            BY <1>a, <1>c, <2>1, <2>2 DEF Delivered, TypeOK
        <2> QED BY <1>b, <2>1, <2>3, DisconnectInv
    <1> QED BY <1>a, <1>1, <1>2, <1>3 DEF ToHq

LEMMA LookupAcceptInv ==
    ASSUME HandshakeInv, NEW c \in Conn, LookupAccept(c), TypeOK'
    PROVE  HandshakeInv'
    <1> DEFINE q == toD[c]
    <1>a. TypeOK /\ SlotInv(c) /\ q \in Seq(ToDaemon) /\ c \in looking
        BY DEF HandshakeInv, LookupAccept, TypeOK
    <1>b. /\ looking' = looking \ {c} /\ pending' = pending \ {c}
          /\ authTimer' = authTimer \ {c} /\ toD' = Delivered(toD, c, "auth-accept")
          /\ UNCHANGED <<cEnd, sEnd, toH, opener, wsId, reg>>
        BY DEF LookupAccept
    <1>1. AuthTimerExactlyPending'
        BY <1>b DEF HandshakeInv, AuthTimerExactlyPending
    <1>2. EntryUsable' /\ OneLiveSocket'
        BY <1>b DEF HandshakeInv, EntryUsable, OneLiveSocket, ProjectOf
    <1>3. Without(q, TokD) /\ Without(toH[c], TokH) /\ c \notin wsId
        BY <1>a DEF SlotInv, OneToken
    <1>4. AtMostOne(q, TokD) /\ AtMostOne(Append(q, "auth-accept"), TokD)
        BY <1>a, <1>3, AtMostOneStep DEF SlotInv, OneToken, ToDaemon
    <1>5. toD'[c] = q \/ (toD'[c] = Append(q, "auth-accept") /\ sEnd[c] = "open")
        BY <1>a, <1>b DEF Delivered, TypeOK
    <1>6. SlotInv(c)'
        <2>1. OneToken(c)'
            BY <1>a, <1>b, <1>3, <1>4, <1>5 DEF OneToken, SlotInv
        <2>2. sEnd[c] = "closing" => NotAccepted(c)'
            BY <1>a, <1>b, <1>5 DEF SlotInv, NotAccepted
        <2> QED BY <1>a, <1>b, <1>3, <1>5, <2>1, <2>2 DEF SlotInv
    <1>7. ASSUME NEW d \in Conn \ {c} PROVE SlotInv(d)'
        <2>1. SameSlot(d)
            BY <1>a, <1>b DEF SameSlot, Delivered, TypeOK
        <2> QED BY <2>1, SlotFrame DEF HandshakeInv
    <1> QED BY <1>1, <1>2, <1>6, <1>7 DEF HandshakeInv

LEMMA SendRejectInv ==
    ASSUME HandshakeInv, NEW c \in looking, SendReject(c), TypeOK'
    PROVE  HandshakeInv'
    <1>a. TypeOK /\ c \in Conn /\ SlotInv(c) /\ toD[c] \in Seq(ToDaemon)
        BY DEF HandshakeInv, TypeOK
    <1> DEFINE reject == Delivered(toD, c, "auth-reject")
    <1>b. reject \in [Conn -> Seq(ToDaemon)]
        <2>1. toD \in [Conn -> Seq(ToDaemon)] /\ "auth-reject" \in ToDaemon
            BY <1>a DEF TypeOK, ToDaemon
        <2> QED BY <1>a, <2>1, DeliveredType
    <1>c. /\ looking' = looking \ {c} /\ pending' = pending \ {c}
          /\ authTimer' = (IF c \in pending THEN authTimer \ {c} ELSE authTimer)
          /\ sEnd' = Closing({c}) /\ toD' = CloseFrames(reject, {c}, "close-4001")
          /\ UNCHANGED <<cEnd, toH, opener, wsId, reg>>
        BY DEF SendReject
    <1>1. CASE c \in pending
        <2>1. NoMore(toD[c], Append(toD[c], "auth-reject"), TokD) /\ NoMore(toD[c], toD[c], TokD)
            BY <1>a, NoMoreStep DEF ToDaemon, TokD
        <2>2. NoMore(toD[c], reject[c], TokD)
            BY <1>a, <2>1 DEF Delivered, TypeOK
        <2>3. NoMore(reject[c], toD'[c], TokD)
            BY <1>a, <1>b, <1>c, CloseFramesStep
        <2>4. NoMore(toD[c], toD'[c], TokD)
            BY <2>2, <2>3 DEF NoMore
        <2>5. \A d \in Conn \ {c} : toD'[d] = toD[d]
            <3>1. \A d \in Conn \ {c} : reject[d] = toD[d]
                BY <1>a DEF Delivered, TypeOK
            <3>2. \A d \in Conn \ {c} : CloseFrames(reject, {c}, "close-4001")[d] = reject[d]
                BY <1>b DEF CloseFrames
            <3> QED BY <1>c, <3>1, <3>2
        <2> QED BY <1>c, <1>1, <2>4, <2>5, DismissInv
    <1>2. CASE c \notin pending
        <2>1. sEnd[c] # "open"
            BY <1>a, <1>2 DEF SlotInv
        <2>2. toD' = toD /\ sEnd' = sEnd
            BY <1>a, <1>b, <1>c, <2>1 DEF Delivered, CloseFrames, Closing, TypeOK
        <2>3. UNCHANGED <<pending, authTimer>>
            BY <1>a, <1>c, <1>2 DEF TypeOK
        <2>4. SameRegistry
            BY <1>c, <2>2, <2>3 DEF SameRegistry
        <2>5. ASSUME NEW d \in Conn PROVE SlotInv(d)'
            BY <1>c, <2>2, <2>3 DEF HandshakeInv, SlotInv, OneToken, NotAccepted
        <2> QED BY <2>4, <2>5, RegistryFrame DEF HandshakeInv
    <1> QED BY <1>1, <1>2

LEMMA HandleConnectionInv ==
    ASSUME HandshakeInv, NEW c \in Conn, HandleConnection(c), TypeOK'
    PROVE  HandshakeInv'
    <1>a. TypeOK /\ SlotInv(c) /\ sEnd[c] = "none" /\ toD[c] = << >> /\ toH[c] = << >>
        BY DEF HandshakeInv, HandleConnection, SlotInv
    <1>b. /\ sEnd' = [sEnd EXCEPT ![c] = "open"] /\ pending' = pending \cup {c}
          /\ authTimer' = authTimer \cup {c} /\ toD'[c] = Append(<< >>, "auth-challenge")
          /\ \A d \in Conn \ {c} : toD'[d] = toD[d]
          /\ UNCHANGED <<cEnd, toH, opener, looking, wsId, reg>>
        BY <1>a DEF HandleConnection, TypeOK
    <1>c. c \notin wsId /\ c \notin looking
        BY <1>a DEF SlotInv
    <1>1. AuthTimerExactlyPending'
        BY <1>b DEF HandshakeInv, AuthTimerExactlyPending
    <1>2. EntryUsable'
        BY <1>a, <1>b, <1>c DEF HandshakeInv, EntryUsable, ProjectOf, TypeOK
    <1>3. OneLiveSocket'
        BY <1>a, <1>b, <1>c DEF HandshakeInv, OneLiveSocket, ProjectOf, TypeOK
    <1>4. SlotInv(c)'
        <2>1. << >> \in Seq(ToDaemon) /\ "auth-challenge" \in ToDaemon
            BY DEF ToDaemon
        <2>2. \A S : Without(<< >>, S) /\ AtMostOne(<< >>, S)
            BY DEF Without, AtMostOne
        <2>3. AtMostOne(toD'[c], TokD) /\ Without(toD'[c], {"auth-accept"})
            <3>1. AtMostOne(Append(<< >>, "auth-challenge"), TokD)
                BY <2>1, <2>2, AtMostOneStep
            <3>2. "auth-challenge" \notin {"auth-accept"}
                OBVIOUS
            <3>3. Without(Append(<< >>, "auth-challenge"), {"auth-accept"})
                BY <2>1, <2>2, <3>2, WithoutStep
            <3> QED BY <1>b, <3>1, <3>3
        <2>4. OneToken(c)' /\ NotAccepted(c)'
            BY <1>a, <1>b, <1>c, <2>2, <2>3 DEF OneToken, NotAccepted
        <2> QED BY <1>a, <1>b, <1>c, <2>4 DEF SlotInv, TypeOK
    <1>5. ASSUME NEW d \in Conn \ {c} PROVE SlotInv(d)'
        <2>1. SameSlot(d)
            BY <1>a, <1>b DEF SameSlot, TypeOK
        <2> QED BY <2>1, SlotFrame DEF HandshakeInv
    <1> QED BY <1>1, <1>2, <1>3, <1>4, <1>5 DEF HandshakeInv

LEMMA ConnStepInv ==
    ASSUME HandshakeInv, NEW c \in Conn, ConnStep(c), TypeOK'
    PROVE  HandshakeInv'
    <1>a. TypeOK /\ SlotInv(c) /\ toD[c] \in Seq(ToDaemon) /\ authTimer = pending
        BY DEF HandshakeInv, TypeOK, AuthTimerExactlyPending
    <1>b. "close" \in ToHq \ TokH
        BY DEF ToHq, TokH
    <1>1. CASE ClientOpen(c)
        <2>1. DaemonSide(c, "close") /\ \A d \in Conn \ {c} : SameSlot(d)
            BY <1>1, <1>a DEF ClientOpen, DaemonSide, SameSlot, TypeOK, hqVars
        <2> QED BY <1>1, <1>b, <2>1, DaemonSideStep DEF ClientOpen
    <1>2. CASE ClientAbort(c)
        <2>1. DaemonSide(c, "close") /\ \A d \in Conn \ {c} : SameSlot(d)
            BY <1>2, <1>a DEF ClientAbort, DaemonSide, SameSlot, TypeOK, hqVars
        <2> QED BY <1>2, <1>b, <2>1, DaemonSideStep DEF ClientAbort
    <1>3. CASE AuthTimeout(c)
        <2>1. c \in pending /\ toD \in [Conn -> Seq(ToDaemon)]
            BY <1>3, <1>a DEF AuthTimeout, TypeOK
        <2>2. /\ pending' = pending \ {c} /\ authTimer' = authTimer \ {c}
              /\ UNCHANGED <<looking, wsId, reg, opener, cEnd, toH>>
              /\ sEnd' = Closing({c}) /\ toD' = CloseFrames(toD, {c}, "close")
            BY <1>3, <2>1 DEF AuthTimeout
        <2>3. NoMore(toD[c], toD'[c], TokD) /\ \A d \in Conn \ {c} : toD'[d] = toD[d]
            BY <1>a, <2>1, <2>2, CloseFramesStep
        <2> QED BY <2>1, <2>2, <2>3, DismissInv
    <1>4. CASE ServerAbort(c)
        <2>1. NoMore(toD[c], toD'[c], TokD)
            BY <1>4 DEF ServerAbort, NoMore
        <2> QED BY <1>4, <2>1, DisconnectInv DEF ServerAbort
    <1> QED BY <1>1, <1>2, <1>3, <1>4, ClientReceiveInv, HandleConnectionInv, HqReceiveInv,
               LookupAcceptInv, SendRejectInv
            DEF ConnStep, LookupReject, LookupThrows

LEMMA CheckHeartbeatsInv ==
    ASSUME HandshakeInv, CheckHeartbeats, TypeOK'
    PROVE  HandshakeInv'
    <1> DEFINE silent == {j \in Project : reg[j] # NoConn /\ ~beat[j]}
    <1> DEFINE socks == {reg[j] : j \in silent}
    <1>a. TypeOK /\ toD \in [Conn -> Seq(ToDaemon)]
        BY DEF HandshakeInv, TypeOK
    <1>b. /\ sEnd' = Closing(socks) /\ toD' = CloseFrames(toD, socks, "close")
          /\ reg' = [j \in Project |-> IF j \in silent THEN NoConn ELSE reg[j]]
          /\ UNCHANGED <<cEnd, toH, opener, pending, authTimer, looking, wsId>>
        BY DEF CheckHeartbeats
    <1>1. AuthTimerExactlyPending'
        BY <1>b DEF HandshakeInv, AuthTimerExactlyPending
    <1>2. EntryUsable'
        <2>1. ASSUME NEW j \in Project, reg'[j] # NoConn
              PROVE  reg'[j] = reg[j] /\ reg[j] # NoConn /\ reg[j] \notin socks
            BY <1>b, <2>1 DEF HandshakeInv, EntryUsable
        <2>2. \A d \in Conn \ socks : sEnd'[d] = sEnd[d]
            BY <1>b DEF Closing
        <2> QED BY <1>a, <1>b, <2>1, <2>2 DEF HandshakeInv, EntryUsable, ProjectOf, TypeOK
    <1>3. OneLiveSocket'
        <2>1. ASSUME NEW d \in wsId, sEnd'[d] = "open" PROVE reg'[ProjectOf(d)] = d
            <3>1. d \in Conn /\ ProjectOf(d) \in Project
                BY <1>a, ProjOfAssumption DEF TypeOK, ProjectOf
            <3>2. sEnd[d] = "open" /\ d \notin socks
                BY <1>b, <2>1, <3>1 DEF Closing
            <3>3. reg[ProjectOf(d)] = d
                BY <3>2 DEF HandshakeInv, OneLiveSocket
            <3> QED BY <1>b, <3>1, <3>2, <3>3
        <2> QED BY <1>b, <2>1 DEF OneLiveSocket, ProjectOf
    <1>4. ASSUME NEW d \in Conn PROVE SlotInv(d)'
        <2>1. CASE d \in socks
            <3>1. d \in wsId
                BY <2>1 DEF HandshakeInv, EntryUsable
            <3>2. sEnd'[d] \in {sEnd[d], "closing"}
                BY <1>b DEF Closing
            <3>3. NoMore(toD[d], toD'[d], TokD)
                BY <1>a, <1>b, CloseFramesStep
            <3> QED BY <1>b, <3>1, <3>2, <3>3, RetireSlot
        <2>2. CASE d \notin socks
            <3>1. SameSlot(d)
                BY <1>a, <1>b, <2>2, CloseFramesStep DEF SameSlot
            <3> QED BY <3>1, SlotFrame DEF HandshakeInv
        <2> QED BY <2>1, <2>2
    <1> QED BY <1>1, <1>2, <1>3, <1>4 DEF HandshakeInv

LEMMA HqRestartInv ==
    ASSUME HandshakeInv, HqRestart, TypeOK'
    PROVE  HandshakeInv'
    <1>1. AuthTimerExactlyPending' /\ EntryUsable' /\ OneLiveSocket'
        BY DEF HqRestart, AuthTimerExactlyPending, EntryUsable, OneLiveSocket
    <1>2. ASSUME NEW d \in Conn PROVE SlotInv(d)'
        <2>1. SlotInv(d)
            BY DEF HandshakeInv
        <2>2. toD'[d] = toD[d] /\ toH'[d] = << >> /\ sEnd'[d] \in {"none", "closed"}
              /\ (sEnd'[d] = "none" => sEnd[d] = "none") /\ cEnd'[d] = cEnd[d]
              /\ pending' = {} /\ looking' = {} /\ wsId' = {}
            BY DEF HqRestart
        <2>3. \A S : Without(<< >>, S) /\ AtMostOne(<< >>, S)
            BY DEF Without, AtMostOne
        <2> QED BY <2>1, <2>2, <2>3 DEF SlotInv, OneToken
    <1> QED BY <1>1, <1>2 DEF HandshakeInv

-----------------------------------------------------------------------------
(* The handshake invariant holds. *)

LEMMA HandshakeInit == Init => HandshakeInv
    <1> SUFFICES ASSUME Init PROVE HandshakeInv
        OBVIOUS
    <1>1. \A S : Without(<< >>, S) /\ AtMostOne(<< >>, S)
        BY DEF Without, AtMostOne
    <1>2. ASSUME NEW c \in Conn PROVE SlotInv(c)
        BY <1>1 DEF Init, SlotInv, OneToken
    <1>3. AuthTimerExactlyPending /\ EntryUsable /\ OneLiveSocket
        BY DEF Init, AuthTimerExactlyPending, EntryUsable, OneLiveSocket
    <1> QED BY <1>2, <1>3, TypeInit DEF HandshakeInv

LEMMA HandshakeStep == HandshakeInv /\ [Next]_vars => HandshakeInv'
    <1> SUFFICES ASSUME HandshakeInv, [Next]_vars PROVE HandshakeInv'
        OBVIOUS
    <1>1. TypeOK'
        BY TypeStep DEF HandshakeInv
    <1>2. CASE UNCHANGED vars
        BY <1>2 DEF vars, netVars, daemonVars, hqVars, HandshakeInv, TypeOK,
           AuthTimerExactlyPending, EntryUsable, OneLiveSocket, ProjectOf,
           SlotInv, OneToken, NotAccepted
    <1> QED BY <1>1, <1>2, DaemonStepInv, ConnStepInv, CheckHeartbeatsInv, HqRestartInv
            DEF Next

(* The handshake token argument, for any number of daemons and sockets: no *)
(* socket ever carries two handshakes at once, and none that HQ is closing *)
(* is still on its way into the registry.                                  *)
THEOREM HandshakeInvariant == Spec => []HandshakeInv
    BY HandshakeInit, HandshakeStep, PTL DEF Spec

(* A late close, error or timeout of a superseded socket never unregisters *)
(* the daemon that replaced it.                                            *)
THEOREM OneLiveSocketHolds == Spec => []OneLiveSocket
    <1>1. HandshakeInv => OneLiveSocket
        BY DEF HandshakeInv
    <1> QED BY <1>1, HandshakeInvariant, PTL

(* HQ's messages to a daemon go to an open, authenticated socket of that   *)
(* daemon's project.                                                       *)
THEOREM EntryUsableHolds == Spec => []EntryUsable
    <1>1. HandshakeInv => EntryUsable
        BY DEF HandshakeInv
    <1> QED BY <1>1, HandshakeInvariant, PTL

(* Exactly the sockets that are still authenticating can be timed out.     *)
THEOREM AuthTimerHolds == Spec => []AuthTimerExactlyPending
    <1>1. HandshakeInv => AuthTimerExactlyPending
        BY DEF HandshakeInv
    <1> QED BY <1>1, HandshakeInvariant, PTL

-----------------------------------------------------------------------------
(* DaemonLink implements Presence. *)

(* How a step changes the registry: not at all, a socket registers, or     *)
(* entries are dropped.                                                    *)
RegistryKept == reg' = reg
RegistryTakes(c) ==
    /\ reg' = [reg EXCEPT ![ProjectOf(c)] = c]
    /\ sEnd[c] = "open" /\ c \notin wsId
RegistryDrops(J) ==
    reg' = [j \in Project |-> IF j \in J THEN NoConn ELSE reg[j]]

RegistryStep ==
    \/ RegistryKept
    \/ \E c \in Conn : RegistryTakes(c)
    \/ \E J \in SUBSET Project : RegistryDrops(J)

LEMMA DisconnectDrops ==
    ASSUME NEW C, HandleDisconnect(C) PROVE RegistryStep
    <1> DEFINE J == {j \in Project : reg[j] \in C}
    <1>1. RegistryDrops(J) /\ J \in SUBSET Project
        BY DEF HandleDisconnect, RegistryDrops
    <1> QED BY <1>1 DEF RegistryStep

LEMMA RegistryChanges ==
    ASSUME HandshakeInv, [Next]_vars PROVE RegistryStep
    <1>1. ASSUME NEW c \in Conn, HqReceive(c) PROVE RegistryStep
        <2>1. CASE Register(c) /\ c \notin pending /\ Head(toH[c]) = "register"
            <3>1. SlotInv(c) /\ toH[c] # << >> /\ toH[c] \in Seq(ToHq)
                  /\ sEnd[c] \in {"open", "closing"}
                BY <1>1 DEF HandshakeInv, TypeOK, HqReceive
            <3>2. ~Without(toH[c], TokH) /\ ~Without(toH[c], {"register"})
                BY <2>1, <3>1 DEF Without, TokH
            <3>3. c \notin wsId /\ sEnd[c] = "open"
                BY <3>1, <3>2 DEF SlotInv, OneToken, NotAccepted
            <3> QED BY <2>1, <3>3 DEF Register, RegistryStep, RegistryTakes
        <2>2. CASE HandleDisconnect({c})
            BY <2>2, DisconnectDrops
        <2>3. CASE UNCHANGED reg
            BY <2>3 DEF RegistryStep, RegistryKept
        <2> QED BY <1>1, <2>1, <2>2, <2>3 DEF HqReceive, hqVars
    <1>2. ASSUME NEW c \in Conn, ServerAbort(c) PROVE RegistryStep
        BY <1>2, DisconnectDrops DEF ServerAbort
    <1>3. ASSUME CheckHeartbeats PROVE RegistryStep
        <2> DEFINE J == {j \in Project : reg[j] # NoConn /\ ~beat[j]}
        <2>1. RegistryDrops(J) /\ J \in SUBSET Project
            BY <1>3 DEF CheckHeartbeats, RegistryDrops
        <2> QED BY <2>1 DEF RegistryStep
    <1>4. ASSUME HqRestart PROVE RegistryStep
        <2>1. RegistryDrops(Project)
            BY <1>4 DEF HqRestart, RegistryDrops
        <2> QED BY <2>1 DEF RegistryStep
    <1>5. ASSUME NEW p \in Proc, DaemonStep(p) PROVE RegistryKept
        BY <1>5 DEF RegistryKept, DaemonStep, DaemonStart, ReconnectTimer, HeartbeatTimer,
           Shutdown, DaemonCrash, hqVars
    <1>6. ASSUME NEW c \in Conn, ConnStep(c), ~HqReceive(c), ~ServerAbort(c) PROVE RegistryKept
        BY <1>6 DEF RegistryKept, ConnStep, ClientOpen, ClientReceive, ClientAbort,
           HandleConnection, AuthTimeout, LookupAccept, LookupReject, LookupThrows,
           SendReject, hqVars
    <1>7. CASE UNCHANGED vars
        BY <1>7 DEF RegistryStep, RegistryKept, vars, hqVars
    <1> QED BY <1>1, <1>2, <1>3, <1>4, <1>5, <1>6, <1>7 DEF Next, RegistryStep

(* An open server end does not become a fresh one in one step, and a       *)
(* socket leaves wsToDaemonId only when its server end is gone.            *)
EndStep(d) ==
    /\ sEnd[d] = "open" => sEnd'[d] # "none"
    /\ d \in wsId /\ d \notin wsId' => sEnd'[d] # "open"

LEMMA EndSteps ==
    ASSUME HandshakeInv, [Next]_vars, NEW d \in Conn PROVE EndStep(d)
    <1>a. TypeOK
        BY DEF HandshakeInv
    <1>1. ASSUME NEW p \in Proc, DaemonStep(p) PROVE EndStep(d)
        <2>1. wsId' = wsId
            BY <1>1 DEF DaemonStep, DaemonStart, ReconnectTimer, HeartbeatTimer, Shutdown,
               DaemonCrash, hqVars
        <2>2. ASSUME Connect(p) PROVE sEnd[d] = "open" => sEnd'[d] # "none"
            BY <2>2, <1>a DEF Connect, Free, netVars, TypeOK
        <2>3. sEnd[d] = "open" => sEnd'[d] # "none"
            BY <1>1, <1>a, <2>2 DEF DaemonStep, DaemonStart, ReconnectTimer, HeartbeatTimer,
               Shutdown, DaemonCrash, TypeOK
        <2> QED BY <2>1, <2>3 DEF EndStep
    <1>2. ASSUME NEW c \in Conn, ConnStep(c), ~HqReceive(c), ~ServerAbort(c) PROVE EndStep(d)
        <2>1. wsId' = wsId
            BY <1>2 DEF ConnStep, ClientOpen, ClientReceive, ClientAbort, HandleConnection,
               AuthTimeout, LookupAccept, LookupReject, LookupThrows, SendReject, hqVars
        <2>2. sEnd[d] = "open" => sEnd'[d] # "none"
            BY <1>2, <1>a DEF ConnStep, ClientOpen, ClientReceive, ClientAbort,
               HandleConnection, AuthTimeout, LookupAccept, LookupReject, LookupThrows,
               SendReject, Closing, TypeOK
        <2> QED BY <2>1, <2>2 DEF EndStep
    <1>3. ASSUME NEW c \in Conn, HqReceive(c) PROVE EndStep(d)
        BY <1>3, <1>a, SMTT(30) DEF EndStep, HqReceive, Register, HandleDisconnect, Closing, hqVars, TypeOK
    <1>4. ASSUME NEW c \in Conn, ServerAbort(c) PROVE EndStep(d)
        BY <1>4, <1>a DEF EndStep, ServerAbort, HandleDisconnect, TypeOK
    <1>5. ASSUME CheckHeartbeats PROVE EndStep(d)
        BY <1>5, <1>a DEF EndStep, CheckHeartbeats, Closing, TypeOK
    <1>6. ASSUME HqRestart PROVE EndStep(d)
        BY <1>6, <1>a DEF EndStep, HqRestart, TypeOK
    <1>7. CASE UNCHANGED vars
        BY <1>7 DEF EndStep, vars, netVars, hqVars
    <1> QED BY <1>1, <1>2, <1>3, <1>4, <1>5, <1>6, <1>7 DEF Next

LEMMA SpendingSteps ==
    ASSUME HandshakeInv, HandshakeInv', [Next]_vars PROVE Presence!Spending
    <1> DEFINE spent == {c \in Conn : sEnd[c] \in {"closing", "closed"}}
    <1> DEFINE Held == {reg[j] : j \in Project} \ {NoConn}
    <1>a. TypeOK /\ TypeOK'
        BY DEF HandshakeInv
    <1>1. Held \ Held' \subseteq spent'
        <2> SUFFICES ASSUME NEW d \in Held, d \notin Held' PROVE d \in spent'
            OBVIOUS
        <2>1. d \in Conn /\ sEnd[d] = "open" /\ d \in wsId
            BY <1>a DEF HandshakeInv, EntryUsable, TypeOK
        <2>2. EndStep(d)
            BY <2>1, EndSteps
        <2>3. CASE d \in wsId'
            <3>1. ProjectOf(d)' \in Project
                BY <1>a, <2>1, ProjOfAssumption DEF ProjectOf, TypeOK
            <3>2. sEnd'[d] = "open" => reg'[ProjectOf(d)'] = d
                BY <2>3 DEF HandshakeInv, OneLiveSocket
            <3>3. sEnd'[d] # "open"
                BY <2>1, <3>1, <3>2, NoConnAssumption
            <3> QED BY <1>a, <2>1, <2>2, <3>3 DEF EndStep, TypeOK, ServerEnds
        <2>4. CASE d \notin wsId'
            BY <1>a, <2>1, <2>2, <2>4 DEF EndStep, TypeOK, ServerEnds
        <2> QED BY <2>3, <2>4
    <1>2. spent' \subseteq Conn \ Held'
        BY DEF HandshakeInv, EntryUsable
    <1> QED BY <1>1, <1>2 DEF Presence!Spending, Presence!Held

(* The registry with its sockets is an implementation of Presence: every   *)
(* project has at most one holder, a project passes only to a socket that  *)
(* is fresh, and whoever loses it is closed in the same step.              *)
THEOREM LinkImplementsPresence == Spec => PresenceSpec
    <1>1. Init => Presence!Init
        BY DEF Init, Presence!Init
    <1>2. HandshakeInv /\ HandshakeInv' /\ [Next]_vars => [Presence!Next]_Presence!pvars
        <2> SUFFICES ASSUME HandshakeInv, HandshakeInv', [Next]_vars
                     PROVE  [Presence!Next]_Presence!pvars
            OBVIOUS
        <2>1. Presence!Spending
            BY SpendingSteps
        <2>2. ASSUME NEW J \in SUBSET Project, RegistryDrops(J) PROVE Presence!Next
            BY <2>1, <2>2 DEF RegistryDrops, Presence!Next, Presence!Lose
        <2>3. CASE RegistryKept
            <3>1. RegistryDrops({})
                BY <2>3 DEF RegistryKept, RegistryDrops, HandshakeInv, TypeOK
            <3> QED BY <2>2, <3>1
        <2>4. ASSUME NEW c \in Conn, RegistryTakes(c) PROVE Presence!Next
            <3>1. ProjectOf(c) \in Project
                BY ProjOfAssumption DEF HandshakeInv, TypeOK, ProjectOf
            <3>2. c \notin Presence!Held
                BY <2>4, NoConnAssumption
                DEF RegistryTakes, Presence!Held, HandshakeInv, EntryUsable
            <3>3. Presence!Take(ProjectOf(c), c)
                BY <2>1, <2>4, <3>1, <3>2 DEF RegistryTakes, Presence!Take
            <3> QED BY <3>1, <3>3 DEF Presence!Next
        <2> QED BY <2>2, <2>3, <2>4, RegistryChanges DEF RegistryStep
    <1> QED BY <1>1, <1>2, HandshakeInvariant, PTL DEF Spec, PresenceSpec, Presence!Spec

=============================================================================

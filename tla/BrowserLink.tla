------------------------------ MODULE BrowserLink ------------------------------
(***************************************************************************)
(* The WebSocket between a browser tab and HQ: the reconnecting manager    *)
(* (client/services/ws.ts), the React context and hooks that subscribe     *)
(* through it (contexts/WebSocketContext.tsx, hooks/useTerminal.ts) and    *)
(* HQ's connections with their heartbeat (server/ws).                      *)
(*                                                                         *)
(* The manager resubscribes channels when a socket opens, but nothing      *)
(* joins terminals again and a full queue drops messages.  What repairs    *)
(* both is that a new status gives `subscribe' a new identity, so React    *)
(* runs every effect again, some time later.                               *)
(***************************************************************************)
EXTENDS Naturals, SequencesExt

CONSTANTS
    Conn,           \* sockets; one is reused when both ends are done with it
    Page,           \* components that call useSubscription
    Screen,         \* terminals shown with useTerminal
    MaxQueueSize,       \* maxQueueSize
    MaxWire,        \* bound: mounts wait while so many messages are in flight
    MaxHqStarts     \* bound on starts of HQ

ASSUME BrowserLinkAssumption ==
    /\ Page \cap Screen = {}
    /\ {MaxQueueSize, MaxWire, MaxHqStarts} \subseteq Nat /\ MaxHqStarts # 0

VARIABLES
    ws, readyState, wsStatus,
    retryTimer,     \* is reconnectTimer set?
    subscriptions, messageQueue,
    mounted,        \* the views on the page
    rerender,       \* is React to run the effects again with the new `subscribe'?
    token,          \* the start of HQ whose session token the tab holds
    hqStart,        \* the current start of HQ
    clients,        \* HQ: the client it tracks per socket, if any
    wire,           \* messages from the tab that HQ has not read
    intact          \* sockets that the network still carries

tabVars == <<ws, readyState, wsStatus, retryTimer, subscriptions, messageQueue, mounted, rerender, token>>
hqWsVars == <<hqStart, clients, wire, intact>>
blVars == <<tabVars, hqWsVars>>

View == Page \cup Screen
Channel == {"issues", "terminal"}
ChannelOf(v) == IF v \in Screen THEN "terminal" ELSE "issues"
Msg(type, of) == [type |-> type, of |-> of]
ClientMessage ==
    {Msg(t, c) : t \in {"subscribe", "unsubscribe"}, c \in Channel}
        \cup {Msg(t, v) : t \in {"join", "leave"}, v \in Screen}

NoClient == [tracked |-> FALSE, channels |-> {}, joined |-> {}, alive |-> FALSE]
Client == [NoClient EXCEPT !.tracked = TRUE, !.alive = TRUE]

BlTypeOK ==
    /\ ws \in Conn /\ readyState \in {"connecting", "open", "closed"}
    /\ wsStatus \in {"connecting", "connected", "reconnecting"}
    /\ retryTimer \in BOOLEAN /\ rerender \in BOOLEAN
    /\ subscriptions \subseteq Channel /\ mounted \subseteq View
    /\ messageQueue \in Seq(ClientMessage) /\ Len(messageQueue) <= MaxQueueSize
    /\ token \in 1..MaxHqStarts /\ hqStart \in 1..MaxHqStarts
    /\ \A i \in Conn :
        /\ {clients[i].tracked, clients[i].alive} \subseteq BOOLEAN
        /\ clients[i].channels \subseteq Channel /\ clients[i].joined \subseteq Screen
        /\ wire[i] \in Seq(ClientMessage)
    /\ intact \subseteq Conn

(* The provider's effect has called connect() once: connecting, no answer. *)
BlInit ==
    /\ \E i \in Conn : ws = i /\ intact = {i}
    /\ readyState = "connecting" /\ wsStatus = "connecting" /\ retryTimer = FALSE
    /\ subscriptions = {} /\ messageQueue = <<>> /\ mounted = {} /\ rerender = FALSE
    /\ token = 1 /\ hqStart = 1
    /\ clients = [i \in Conn |-> NoClient] /\ wire = [i \in Conn |-> <<>>]

-----------------------------------------------------------------------------
(* send: on the socket while it looks open, else queued while there is     *)
(* room.  A socket that died unnoticed still looks open.                   *)
SendFromTab(msgs) ==
    IF readyState = "open"
    THEN /\ wire' = IF ws \in intact THEN [wire EXCEPT ![ws] = @ \o msgs] ELSE wire
         /\ UNCHANGED messageQueue
    ELSE /\ LET all == messageQueue \o msgs
            IN messageQueue' = SubSeq(all, 1, IF Len(all) < MaxQueueSize THEN Len(all) ELSE MaxQueueSize)
         /\ UNCHANGED wire

(* A status that is set without a new `subscribe'.                         *)
SetStatusQuietly(s) == wsStatus' = s /\ UNCHANGED rerender

(* setStatus: a change gives `subscribe' a new identity.                   *)
SetStatus(s) == wsStatus' = s /\ rerender' = (rerender \/ s # wsStatus)

(* What a view's effect sends, and what its clean-up sends when `others'   *)
(* are the views still there.                                              *)
EffectMessages(v) ==
    (IF v \in Screen THEN <<Msg("join", v)>> ELSE <<>>) \o <<Msg("subscribe", ChannelOf(v))>>
CleanupMessages(v, others) ==
    (IF \E w \in others : ChannelOf(w) = ChannelOf(v) THEN <<>> ELSE <<Msg("unsubscribe", ChannelOf(v))>>)
        \o (IF v \in Screen THEN <<Msg("leave", v)>> ELSE <<>>)

HasRoom == Len(wire[ws]) < MaxWire

Mount(v) ==
    /\ v \notin mounted /\ HasRoom
    /\ mounted' = mounted \cup {v}
    /\ subscriptions' = subscriptions \cup {ChannelOf(v)}
    /\ SendFromTab(EffectMessages(v))
    /\ UNCHANGED <<ws, readyState, wsStatus, retryTimer, rerender, token, hqStart, clients, intact>>

(* Only the last handler of a channel gives the channel up.                *)
UnmountUnsubscribes(v) ==
    /\ v \in mounted /\ HasRoom
    /\ mounted' = mounted \ {v}
    /\ subscriptions' = subscriptions \ {ChannelOf(v)}
    /\ SendFromTab(CleanupMessages(v, {}))
    /\ UNCHANGED <<ws, readyState, wsStatus, retryTimer, rerender, token, hqStart, clients, intact>>

Unmount(v) ==
    /\ v \in mounted /\ HasRoom
    /\ mounted' = mounted \ {v}
    /\ subscriptions' = {ChannelOf(w) : w \in mounted \ {v}}
    /\ SendFromTab(CleanupMessages(v, mounted \ {v}))
    /\ UNCHANGED <<ws, readyState, wsStatus, retryTimer, rerender, token, hqStart, clients, intact>>

(* All clean-ups, then all effects.                                        *)
Rerender ==
    /\ rerender /\ rerender' = FALSE
    /\ LET order == SetToSeq(mounted)
           after(i) == {order[j] : j \in i+1..Len(order)}
       IN SendFromTab(FlattenSeq([i \in DOMAIN order |-> CleanupMessages(order[i], after(i))])
                        \o FlattenSeq([i \in DOMAIN order |-> EffectMessages(order[i])]))
    /\ UNCHANGED <<ws, readyState, wsStatus, retryTimer, subscriptions, mounted, token, hqStart, clients, intact>>

-----------------------------------------------------------------------------
(* The upgrade: HQ tracks a socket that brings its session token.          *)
Upgrade ==
    /\ ws \in intact /\ clients[ws] = NoClient
    /\ IF token = hqStart
       THEN clients' = [clients EXCEPT ![ws] = Client] /\ UNCHANGED intact
       ELSE intact' = intact \ {ws} /\ UNCHANGED clients
    /\ UNCHANGED <<tabVars, hqStart, wire>>

(* onopen: resubscribe the channels, then flush the queue in its order.    *)
Opened ==
    /\ readyState = "connecting"
    /\ clients[ws].tracked
    /\ readyState' = "open"
    /\ SetStatus("connected")
    /\ LET channels == SetToSeq(subscriptions)
           sent == [i \in DOMAIN channels |-> Msg("subscribe", channels[i])] \o messageQueue
       IN wire' = IF ws \in intact THEN [wire EXCEPT ![ws] = @ \o sent] ELSE wire
    /\ messageQueue' = <<>>
    /\ UNCHANGED <<ws, retryTimer, subscriptions, mounted, token, hqStart, clients, intact>>

(* onclose, whichever end closed or the network: the retry is scheduled.   *)
Closed ==
    /\ readyState # "closed" /\ ws \notin intact
    /\ readyState' = "closed" /\ SetStatus("reconnecting") /\ retryTimer' = TRUE
    /\ UNCHANGED <<ws, subscriptions, messageQueue, mounted, token, hqWsVars>>

Fresh(i) == i \notin intact /\ clients[i] = NoClient /\ i # ws

(* The retry timer: connect() and createSocket().                          *)
Retry(i) ==
    /\ retryTimer /\ retryTimer' = FALSE
    /\ Fresh(i)
    /\ ws' = i /\ readyState' = "connecting" /\ SetStatus("connecting")
    /\ intact' = intact \cup {i}
    /\ UNCHANGED <<subscriptions, messageQueue, mounted, token, hqStart, clients, wire>>

(* The operator opens the URL of the running HQ: a new page and manager.   *)
Reload(i) ==
    /\ Fresh(i)
    /\ ws' = i /\ readyState' = "connecting" /\ wsStatus' = "connecting"
    /\ retryTimer' = FALSE /\ rerender' = FALSE
    /\ subscriptions' = {} /\ messageQueue' = <<>> /\ mounted' = {}
    /\ token' = hqStart
    /\ intact' = (intact \ {ws}) \cup {i}
    /\ wire' = [wire EXCEPT ![ws] = <<>>]
    /\ UNCHANGED <<hqStart, clients>>

-----------------------------------------------------------------------------
(* handleMessage in the order of the socket.                               *)
HandleClientMessage(i) ==
    /\ clients[i].tracked /\ wire[i] # <<>>
    /\ LET m == Head(wire[i])
       IN clients' = [clients EXCEPT
            ![i].channels = CASE m.type = "subscribe" -> @ \cup {m.of}
                              [] m.type = "unsubscribe" -> @ \ {m.of}
                              [] OTHER -> @,
            ![i].joined = CASE m.type = "join" -> @ \cup {m.of}
                            [] m.type = "leave" -> @ \ {m.of}
                            [] OTHER -> @]
    /\ wire' = [wire EXCEPT ![i] = Tail(@)]
    /\ UNCHANGED <<tabVars, hqStart, intact>>

(* A socket that breaks takes along what it carried.                       *)
Break(broken) ==
    /\ intact' = intact \ broken
    /\ wire' = [i \in Conn |-> IF i \in broken THEN <<>> ELSE wire[i]]

(* The heartbeat terminates a client that did not answer since the last.   *)
Heartbeat ==
    LET silent == {i \in Conn : clients[i].tracked /\ ~clients[i].alive}
    IN /\ \E i \in Conn : clients[i].tracked
       /\ clients' = [i \in Conn |-> IF i \in silent THEN NoClient ELSE [clients[i] EXCEPT !.alive = FALSE]]
       /\ Break(silent)
       /\ UNCHANGED <<tabVars, hqStart>>

Pong(i) ==
    /\ clients[i].tracked /\ ~clients[i].alive /\ i \in intact
    /\ clients' = [clients EXCEPT ![i].alive = TRUE]
    /\ UNCHANGED <<tabVars, hqStart, wire, intact>>

NetworkFails(i) ==
    /\ i \in intact /\ Break({i})
    /\ UNCHANGED <<tabVars, hqStart, clients>>

(* HQ's close event, and the relay's bindings with it.                     *)
ServerSeesClose(i) ==
    /\ clients[i].tracked /\ i \notin intact
    /\ clients' = [clients EXCEPT ![i] = NoClient]
    /\ UNCHANGED <<tabVars, hqStart, wire, intact>>

(* A restart drops every client and makes a new session token.             *)
HqRestarts ==
    /\ hqStart < MaxHqStarts /\ hqStart' = hqStart + 1
    /\ clients' = [i \in Conn |-> NoClient]
    /\ Break(Conn)
    /\ UNCHANGED tabVars

BlNext ==
    \/ \E v \in View : Mount(v) \/ Unmount(v)
    \/ Rerender \/ Upgrade \/ Opened \/ Closed
    \/ \E i \in Conn : Retry(i) \/ Reload(i)
    \/ \E i \in Conn : HandleClientMessage(i) \/ Pong(i) \/ NetworkFails(i) \/ ServerSeesClose(i)
    \/ Heartbeat \/ HqRestarts

BlSpec == BlInit /\ [][BlNext]_blVars

-----------------------------------------------------------------------------
(* Nothing under way between the tab and HQ.                               *)
Settled ==
    /\ ws \in intact /\ readyState = "open" /\ clients[ws].tracked
    /\ wire[ws] = <<>> /\ messageQueue = <<>> /\ ~rerender

(* Whatever was mounted, unmounted, queued, dropped by a full queue or     *)
(* lost with a socket: once the connection has settled, HQ sends every     *)
(* view on the page the updates it shows, each terminal's output included. *)
EveryViewIsServed ==
    Settled => \A v \in mounted :
        /\ ChannelOf(v) \in clients[ws].channels
        /\ v \in Screen => v \in clients[ws].joined
================================================================================

-------------------------------- MODULE Preview --------------------------------
(***************************************************************************)
(* The preview proxy: a request of a browser goes from HQ                  *)
(* (server/routes/preview.ts) over the daemon's link to the project's dev  *)
(* server (daemon/preview.ts) and its answer comes back under the id of    *)
(* the request.  HQ offers the preview once the daemon has reported a      *)
(* port, and the daemon (daemon/preview-manager.ts) looks for one every    *)
(* time it authenticates, as long as it has none.                          *)
(***************************************************************************)
EXTENDS Naturals, SequencesExt

CONSTANTS
    Get,            \* proxied requests
    MaxRetries,     \* PREVIEW_MAX_RETRIES
    MaxConns,       \* bound on connections
    MaxProcesses    \* bound on restarts of the daemon and of HQ

ASSUME PreviewAssumption == {MaxRetries, MaxConns, MaxProcesses} \subseteq Nat

VARIABLES
    explicitPort,   \* is a port configured?
    previewHandler, \* does the daemon have its handler?
    detections,     \* runs of detectPreviewPort under way
    detectTimer, intervals,     \* is the interval stored? how many run?
    retryCount,
    local,          \* requests at the dev server: "sent", or "destroyed" by the timeout
    connNo, online, \* the daemon's connection: its number; is it authenticated?
    up2hq, down2daemon,     \* messages on it, in order
    entry,          \* the daemon's entry at HQ
    pendingRequests,
    sentOn,         \* per request, the connection it was sent on, 0 before
    restartsSoFar

daemonPvVars == <<explicitPort, previewHandler, detections, detectTimer, intervals, retryCount, local>>
connPvVars == <<connNo, online, up2hq, down2daemon>>
hqPvVars == <<entry, pendingRequests, sentOn>>
pvVars == <<daemonPvVars, connPvVars, hqPvVars, restartsSoFar>>

Register == [type |-> "register"]
Config == [type |-> "preview-config"]
Response(r) == [type |-> "preview-proxy-response", req |-> r]
NoEntry == [state |-> "none", conn |-> 0, previewPort |-> FALSE]

PvTypeOK ==
    /\ {explicitPort, previewHandler, detectTimer, online} \subseteq BOOLEAN
    /\ {detections, intervals} \subseteq 0..MaxConns + MaxConns * (MaxRetries + 1)
    /\ retryCount \in 0..MaxRetries + 1
    /\ local \in [Get -> {"none", "sent", "destroyed"}]
    /\ connNo \in 0..MaxConns
    /\ up2hq \in Seq({Register, Config} \cup {Response(r) : r \in Get}) /\ down2daemon \in Seq(Get)
    /\ entry \in [state : {"none", "connected", "disconnected"}, conn : 0..MaxConns, previewPort : BOOLEAN]
    /\ pendingRequests \subseteq Get /\ sentOn \in [Get -> 0..MaxConns]
    /\ restartsSoFar \in 0..MaxProcesses

PvInit ==
    /\ explicitPort \in BOOLEAN /\ previewHandler = FALSE
    /\ detections = 0 /\ detectTimer = FALSE /\ intervals = 0 /\ retryCount = 0
    /\ local = [r \in Get |-> "none"]
    /\ connNo = 0 /\ online = FALSE /\ up2hq = <<>> /\ down2daemon = <<>>
    /\ entry = NoEntry /\ pendingRequests = {} /\ sentOn = [r \in Get |-> 0]
    /\ restartsSoFar = 0

-----------------------------------------------------------------------------
(* `authenticated': register, then start() of the preview manager.  With a *)
(* configured port it reports it again; without one a handler that exists  *)
(* stays silent.  A new interval replaces the handle of an old one.        *)
Authenticated ==
    /\ ~online /\ connNo < MaxConns
    /\ connNo' = connNo + 1 /\ online' = TRUE /\ down2daemon' = <<>>
    /\ \/ /\ explicitPort
          /\ previewHandler' = TRUE /\ up2hq' = <<Register, Config>>
          /\ UNCHANGED <<detections, detectTimer, intervals, retryCount>>
       \/ /\ ~explicitPort
          /\ up2hq' = <<Register>>
          /\ retryCount' = 0 /\ detections' = detections + 1
          /\ detectTimer' = TRUE /\ intervals' = intervals + 1
          /\ UNCHANGED previewHandler
    /\ UNCHANGED <<explicitPort, local, hqPvVars, restartsSoFar>>

(* stopRetry knows the interval that was set last only.                    *)
StopRetry == detectTimer' = FALSE /\ intervals' = IF detectTimer THEN intervals - 1 ELSE intervals

RetryTick ==
    /\ intervals > 0
    /\ \/ /\ previewHandler \/ retryCount >= MaxRetries
          /\ StopRetry
          /\ retryCount' = IF previewHandler \/ retryCount > MaxRetries THEN retryCount ELSE retryCount + 1
          /\ UNCHANGED detections
       \/ /\ ~previewHandler /\ retryCount < MaxRetries
          /\ retryCount' = retryCount + 1 /\ detections' = detections + 1
          /\ UNCHANGED <<detectTimer, intervals>>
    /\ UNCHANGED <<explicitPort, previewHandler, local, connPvVars, hqPvVars, restartsSoFar>>

(* detectAndStartPreview, after its await: the first port found makes the  *)
(* handler, and is reported if the daemon is authenticated just then.      *)
DetectionEnds(found) ==
    /\ detections > 0 /\ detections' = detections - 1
    /\ IF found /\ ~previewHandler
       THEN /\ previewHandler' = TRUE
            /\ up2hq' = IF online THEN Append(up2hq, Config) ELSE up2hq
            /\ StopRetry
       ELSE UNCHANGED <<previewHandler, up2hq, detectTimer, intervals>>
    /\ UNCHANGED <<explicitPort, retryCount, local, connNo, online, down2daemon, hqPvVars, restartsSoFar>>

(* A request that reaches a daemon without a handler is ignored.           *)
HandleProxyRequest ==
    /\ online /\ down2daemon # <<>> /\ down2daemon' = Tail(down2daemon)
    /\ local' = IF previewHandler THEN [local EXCEPT ![Head(down2daemon)] = "sent"] ELSE local
    /\ UNCHANGED <<explicitPort, previewHandler, detections, detectTimer, intervals, retryCount,
                   connNo, online, up2hq, hqPvVars, restartsSoFar>>

LocalAnswers(r, next) ==
    /\ local' = [local EXCEPT ![r] = next]
    /\ up2hq' = IF online THEN Append(up2hq, Response(r)) ELSE up2hq
    /\ UNCHANGED <<explicitPort, previewHandler, detections, detectTimer, intervals, retryCount,
                   connNo, online, down2daemon, hqPvVars, restartsSoFar>>

(* The dev server answered, or the request or its response failed.         *)
ServerAnswers(r) == local[r] = "sent" /\ LocalAnswers(r, "none")

(* The timeout answers, and so does the error that destroying the request  *)
(* causes.                                                                 *)
LocalTimeout(r) == local[r] = "sent" /\ LocalAnswers(r, "destroyed")
DestroyError(r) == local[r] = "destroyed" /\ LocalAnswers(r, "none")

-----------------------------------------------------------------------------
(* register: a new entry replaces the old one, port and all.               *)
RegisteredKeepsPort == [entry EXCEPT !.state = "connected", !.conn = connNo]
Registered == [state |-> "connected", conn |-> connNo, previewPort |-> FALSE]

HqHandlesPreview ==
    /\ up2hq # <<>> /\ up2hq' = Tail(up2hq)
    /\ LET m == Head(up2hq)
       IN \/ /\ m.type = "register"
             /\ entry' = Registered /\ UNCHANGED pendingRequests
          \/ /\ m.type = "preview-config"
             /\ entry' = [entry EXCEPT !.previewPort = TRUE] /\ UNCHANGED pendingRequests
          \/ /\ m.type = "preview-proxy-response"
             /\ pendingRequests' = pendingRequests \ {m.req} /\ UNCHANGED entry
    /\ UNCHANGED <<daemonPvVars, connNo, online, down2daemon, sentOn, restartsSoFar>>

(* The proxy route.  Until HQ notices that a connection is gone, requests  *)
(* go out on it and are lost.                                              *)
ProxyRequest(r) ==
    /\ sentOn[r] = 0 /\ entry.state = "connected" /\ entry.previewPort
    /\ pendingRequests' = pendingRequests \cup {r}
    /\ sentOn' = [sentOn EXCEPT ![r] = entry.conn]
    /\ down2daemon' = IF online /\ entry.conn = connNo THEN Append(down2daemon, r) ELSE down2daemon
    /\ UNCHANGED <<daemonPvVars, connNo, online, up2hq, entry, restartsSoFar>>

ProxyTimeout(r) ==
    /\ r \in pendingRequests /\ pendingRequests' = pendingRequests \ {r}
    /\ UNCHANGED <<daemonPvVars, connPvVars, entry, sentOn, restartsSoFar>>

Broken == online' = FALSE /\ up2hq' = <<>> /\ down2daemon' = <<>>

ConnectionBreaks ==
    /\ online /\ Broken
    /\ UNCHANGED <<daemonPvVars, connNo, hqPvVars, restartsSoFar>>

HqNoticesBreak ==
    /\ entry.state = "connected" /\ ~(online /\ entry.conn = connNo)
    /\ entry' = [entry EXCEPT !.state = "disconnected"]
    /\ UNCHANGED <<daemonPvVars, connPvVars, pendingRequests, sentOn, restartsSoFar>>

ProcessEnds == restartsSoFar < MaxProcesses /\ restartsSoFar' = restartsSoFar + 1

DaemonRestarts ==
    /\ ProcessEnds /\ Broken
    /\ previewHandler' = FALSE /\ detections' = 0 /\ detectTimer' = FALSE /\ intervals' = 0
    /\ retryCount' = 0 /\ local' = [r \in Get |-> "none"]
    /\ UNCHANGED <<explicitPort, connNo, hqPvVars>>

HqProcessRestarts ==
    /\ ProcessEnds /\ Broken
    /\ entry' = NoEntry /\ pendingRequests' = {}
    /\ UNCHANGED <<daemonPvVars, connNo, sentOn>>

PvNext ==
    \/ Authenticated \/ RetryTick \/ HandleProxyRequest \/ HqHandlesPreview
    \/ \E found \in BOOLEAN : DetectionEnds(found)
    \/ \E r \in Get : ServerAnswers(r) \/ LocalTimeout(r) \/ DestroyError(r) \/ ProxyRequest(r) \/ ProxyTimeout(r)
    \/ ConnectionBreaks \/ HqNoticesBreak \/ DaemonRestarts \/ HqProcessRestarts

PvSpec == PvInit /\ [][PvNext]_pvVars

-----------------------------------------------------------------------------
(* A browser that waits for an answer does not wait in vain: a request     *)
(* sent on the daemon's present connection is on its way to the daemon, at *)
(* the dev server or on its way back.  A daemon that restarted without a   *)
(* port must not get requests for the one it had.                          *)
NoRequestIsLost ==
    \A r \in pendingRequests :
        online /\ sentOn[r] = connNo =>
            \/ r \in ToSet(down2daemon)
            \/ local[r] = "sent"
            \/ Response(r) \in ToSet(up2hq)
================================================================================

-------------------------------- MODULE Tunnel --------------------------------
(***************************************************************************)
(* The manager of the dev tunnel process (server/tunnel.ts) under the      *)
(* start and stop routes, --tunnel and shutdown.  start() awaits a check   *)
(* of the CLI before it looks at anything again; a child that times out is *)
(* signalled and forgotten, and its exit comes later.                      *)
(***************************************************************************)
EXTENDS Naturals, FiniteSets

CONSTANTS
    TunnelChild,            \* processes that can be spawned
    NoTunnelChild,          \* no process
    MaxTunnelRequests       \* bound on starts and stops

ASSUME TunnelAssumption == NoTunnelChild \notin TunnelChild /\ MaxTunnelRequests \in Nat

VARIABLES
    process, status, tunnelStopping,
    info,                   \* info, as the child it came from
    startPromise,           \* the child whose URL the start in flight awaits
    checking,               \* starts that await isCliAvailable
    tunnelChildren,         \* "none", "starting" (start-up listeners and timeout), "up", "late"
                            \* (start-up over without a URL) or "gone"
    failed,                 \* children that reported 'error' and will report no 'exit'
    tunnelStops,            \* children whose exit a stop() awaits
    tunnelRequests,
    overlapped              \* history: was a child spawned while another start or child was there?

tnVars == <<process, status, tunnelStopping, info, startPromise, checking, tunnelChildren, failed,
            tunnelStops, tunnelRequests, overlapped>>

Live == {c \in TunnelChild : tunnelChildren[c] \in {"starting", "up", "late"} /\ c \notin failed}

TnTypeOK ==
    /\ {process, info, startPromise} \subseteq TunnelChild \cup {NoTunnelChild}
    /\ status \in {"stopped", "starting", "running", "error"}
    /\ tunnelStopping \in BOOLEAN /\ overlapped \in BOOLEAN
    /\ checking \in 0..MaxTunnelRequests /\ tunnelRequests \in 0..MaxTunnelRequests
    /\ tunnelChildren \in [TunnelChild -> {"none", "starting", "up", "late", "gone"}]
    /\ tunnelStops \subseteq TunnelChild /\ failed \subseteq TunnelChild

TnInit ==
    /\ process = NoTunnelChild /\ status = "stopped" /\ tunnelStopping = FALSE
    /\ info = NoTunnelChild /\ startPromise = NoTunnelChild /\ checking = 0
    /\ tunnelChildren = [c \in TunnelChild |-> "none"]
    /\ tunnelStops = {} /\ failed = {} /\ tunnelRequests = 0 /\ overlapped = FALSE

-----------------------------------------------------------------------------
TunnelRequest == tunnelRequests < MaxTunnelRequests /\ tunnelRequests' = tunnelRequests + 1

(* start: a running tunnel is returned and a start in flight is joined;    *)
(* any other call goes on to the CLI check.                                *)
TunnelStart ==
    /\ TunnelRequest
    /\ ~(status = "running" /\ info # NoTunnelChild)
    /\ ~(status = "starting" /\ startPromise # NoTunnelChild)
    /\ checking' = checking + 1
    /\ UNCHANGED <<process, status, tunnelStopping, info, startPromise, tunnelChildren, failed, tunnelStops, overlapped>>

CliMissing ==
    /\ checking > 0 /\ checking' = checking - 1
    /\ status' = "error"
    /\ UNCHANGED <<process, tunnelStopping, info, startPromise, tunnelChildren, failed, tunnelStops, tunnelRequests, overlapped>>

Spawned(c) ==
    /\ checking > 0 /\ checking' = checking - 1
    /\ tunnelChildren[c] = "none"
    /\ tunnelChildren' = [tunnelChildren EXCEPT ![c] = "starting"]
    /\ process' = c /\ startPromise' = c
    /\ status' = "starting" /\ tunnelStopping' = FALSE
    /\ overlapped' = (overlapped \/ checking > 1 \/ Live # {})
    /\ UNCHANGED <<info, failed, tunnelStops, tunnelRequests>>

(* tryResolve: the child printed its URL.  Whichever start settles clears  *)
(* startPromise.                                                           *)
UrlPrinted(c) ==
    /\ tunnelChildren[c] = "starting" /\ c \notin failed
    /\ tunnelChildren' = [tunnelChildren EXCEPT ![c] = "up"]
    /\ info' = c /\ status' = "running" /\ startPromise' = NoTunnelChild
    /\ UNCHANGED <<process, tunnelStopping, checking, failed, tunnelStops, tunnelRequests, overlapped>>

(* The start-up timeout: handleError, then killProcess signals the current *)
(* child and forgets it.                                                   *)
StartTimesOut(c) ==
    /\ tunnelChildren[c] = "starting" /\ c \notin failed
    /\ tunnelChildren' = [tunnelChildren EXCEPT ![c] = "late"]
    /\ status' = "error" /\ startPromise' = NoTunnelChild
    /\ IF process # NoTunnelChild THEN tunnelStopping' = TRUE ELSE UNCHANGED tunnelStopping
    /\ process' = NoTunnelChild
    /\ UNCHANGED <<info, checking, failed, tunnelStops, tunnelRequests, overlapped>>

(* 'error' of a child that could not be spawned; it stays in process.      *)
SpawnFails(c) ==
    /\ tunnelChildren[c] = "starting" /\ c \notin failed
    /\ tunnelChildren' = [tunnelChildren EXCEPT ![c] = "late"] /\ failed' = failed \cup {c}
    /\ status' = "error" /\ startPromise' = NoTunnelChild
    /\ UNCHANGED <<process, tunnelStopping, info, checking, tunnelStops, tunnelRequests, overlapped>>

(* 'exit', and then the stop() that waits for this child.  The start in    *)
(* flight is rejected only if the status still says starting.              *)
ExitsUnreported(c) ==
    /\ tunnelChildren' = [tunnelChildren EXCEPT ![c] = "gone"]
    /\ startPromise' = IF status = "starting" /\ tunnelChildren[c] = "starting" THEN NoTunnelChild ELSE startPromise
    /\ process' = NoTunnelChild /\ tunnelStops' = tunnelStops \ {c}
    /\ IF c \in tunnelStops
       THEN info' = NoTunnelChild /\ status' = "stopped"
       ELSE UNCHANGED info /\ status' = IF tunnelStopping \/ status = "running" THEN status ELSE "error"
Exits(c) ==
    /\ tunnelChildren' = [tunnelChildren EXCEPT ![c] = "gone"]
    /\ startPromise' = IF status = "starting" /\ tunnelChildren[c] = "starting" THEN NoTunnelChild ELSE startPromise
    /\ process' = NoTunnelChild /\ tunnelStops' = tunnelStops \ {c}
    /\ IF c \in tunnelStops
       THEN info' = NoTunnelChild /\ status' = "stopped"
       ELSE UNCHANGED info /\ status' = IF tunnelStopping THEN status ELSE "error"

TunnelChildExits(c) ==
    /\ c \in Live /\ Exits(c)
    /\ UNCHANGED <<tunnelStopping, checking, failed, tunnelRequests, overlapped>>

(* stop: nothing to do, nothing to kill, or SIGTERM and wait.              *)
TunnelStop ==
    /\ TunnelRequest
    /\ status # "stopped" \/ process # NoTunnelChild
    /\ tunnelStopping' = TRUE
    /\ IF process = NoTunnelChild
       THEN info' = NoTunnelChild /\ status' = "stopped" /\ UNCHANGED tunnelStops
       ELSE tunnelStops' = tunnelStops \cup {process} /\ UNCHANGED <<info, status>>
    /\ UNCHANGED <<process, startPromise, checking, tunnelChildren, failed, overlapped>>

TnNext ==
    \/ TunnelStart \/ CliMissing \/ TunnelStop
    \/ \E c \in TunnelChild : Spawned(c) \/ UrlPrinted(c) \/ StartTimesOut(c) \/ SpawnFails(c) \/ TunnelChildExits(c)

TnSpec == TnInit /\ [][TnNext]_tnVars

-----------------------------------------------------------------------------
(* Properties. *)

(* Unless a child was spawned while another start or child was there --    *)
(* the check of the status is stale by then, and the exit of the older     *)
(* child disowns the newer one -- the tunnel can always be stopped: the    *)
(* child that hosts or may come to host it is the one stop() will signal,  *)
(* a tunnel shown as running is up, and one shown as stopped is not.       *)
TunnelUnderControl ==
    ~overlapped =>
        /\ \A c \in Live : tunnelChildren[c] # "late" => process = c
        /\ status = "running" => info \in Live /\ tunnelChildren[info] = "up"
        /\ status = "stopped" => \A c \in Live : tunnelChildren[c] = "late"
=============================================================================

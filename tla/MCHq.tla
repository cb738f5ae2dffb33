-------------------------------- MODULE MCHq --------------------------------
(* One instance for the parts of HQ that share no state: the state service *)
(* and its store, the self-daemon, the dev tunnel, the preview proxy, the  *)
(* settings, the labels of an issue on GitHub, and the data a browser tab  *)
(* shows.  A behaviour picks one of them, `focus', and only that one moves *)
(* so that the run explores each on its own.                               *)
EXTENDS StateService, SelfDaemon, Tunnel, Preview, Settings, IssuePush, BrowserQueries

CONSTANTS q1, f1, d1, d2, d3, d4, t1, t2, t3, r1, r2

OneRequest == {q1}
OneFlush == {f1}
FourDaemons == {d1, d2, d3, d4}
ThreeTunnels == {t1, t2, t3}
TwoGets == {r1, r2}

(* The pages, by the data they mount.  What the dashboard's issue panel    *)
(* mounts together is taken apart: {"issues", "coordinator"} alone has     *)
(* more states than all of these.                                          *)
PageScreens ==
    {{"issues"}, {"elicitations"}, {"activity"}, {"coordinator"}, {"comments"}, {"sessions"}, {"session"},
     {"copilot-session"}, {"messages", "tools"}, {"mode"}, {"agent"}, {"plan"}, {"models"}, {"agents"},
     {"preference"}, {"sdk-sessions"}, {"github-issues"}, {"dashboard"}, {"daemons"},
     {"users"}, {"repos"}, {"tunnel", "tunnel-qr"}, {"previews"}, {"preview"}, {"settings", "otel"}}

VARIABLE focus

Init ==
    /\ focus \in {"state", "daemon", "tunnel", "preview", "settings", "push", "views"}
    /\ StateInit /\ SdInit /\ TnInit /\ PvInit /\ StgInit /\ IpInit /\ QvInit
    /\ focus # "state" => svcMode = "git" /\ remote["enrichment"] = None
    /\ focus # "preview" => explicitPort
    /\ focus # "push" => ghLabels = {}
    /\ focus # "views" => mounted = {"plan"}

(* The parts that are not in focus do not move.                            *)
Next ==
    /\ UNCHANGED focus
    /\ \/ /\ focus = "state" /\ StateNext
          /\ UNCHANGED <<sdVars, tnVars, pvVars, stgVars, ipVars, qvVars>>
       \/ /\ focus = "daemon" /\ SdNext
          /\ UNCHANGED <<stVars, tnVars, pvVars, stgVars, ipVars, qvVars>>
       \/ /\ focus = "tunnel" /\ TnNext
          /\ UNCHANGED <<stVars, sdVars, pvVars, stgVars, ipVars, qvVars>>
       \/ /\ focus = "preview" /\ PvNext
          /\ UNCHANGED <<stVars, sdVars, tnVars, stgVars, ipVars, qvVars>>
       \/ /\ focus = "settings" /\ StgNext
          /\ UNCHANGED <<stVars, sdVars, tnVars, pvVars, ipVars, qvVars>>
       \/ /\ focus = "push" /\ IpNext
          /\ UNCHANGED <<stVars, sdVars, tnVars, pvVars, stgVars, qvVars>>
       \/ /\ focus = "views" /\ QvNext
          /\ UNCHANGED <<stVars, sdVars, tnVars, pvVars, stgVars, ipVars>>

Spec ==
    /\ Init
    /\ [][Next]_<<focus, stVars, sdVars, tnVars, pvVars, stgVars, ipVars, qvVars>>
    /\ StateFairness
    /\ QvFairness

(* Every part's state has its type: the files, queues, timers, children    *)
(* and counts hold only values its code can give them.                     *)
HqTypeOK ==
    CASE focus = "state" -> StateTypeOK    [] focus = "daemon" -> SdTypeOK
      [] focus = "tunnel" -> TnTypeOK      [] focus = "preview" -> PvTypeOK
      [] focus = "settings" -> StgTypeOK   [] focus = "push" -> IpTypeOK
      [] focus = "views" -> QvTypeOK
=============================================================================

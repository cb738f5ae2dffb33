------------------------------- MODULE Settings -------------------------------
(***************************************************************************)
(* HQ's own settings: ~/.launchpad/config.json, the copy in the state      *)
(* repository when HQ keeps its state in git, the settings in force in the *)
(* running HQ, and what writes them: the terminal wizard of a first start, *)
(* the settings and onboarding pages through PUT /api/settings, and the    *)
(* hot swap of the state service when the mode changes.                    *)
(*                                                                         *)
(* A configuration is a function from its fields; config.json may lack     *)
(* some, and all of them when there is no file.  The debounce of the git   *)
(* state service is in StateService: a save here takes effect in one step, *)
(* in any order when two overlap.                                          *)
(***************************************************************************)
EXTENDS Naturals, Sequences, FiniteSets

CONSTANTS
    Repos,                  \* state repositories the user may write to
    OwnRepo,                \* the one used when none is configured
    Models,                 \* models on offer
    DefaultModel,
    MaxPuts,                \* bound on requests
    MaxPutsAtOnce,          \* bound on requests in flight together
    MaxSettingFaults        \* bound on failures and restarts

ASSUME SettingsAssumption ==
    /\ OwnRepo \in Repos /\ "local" \notin Repos /\ DefaultModel \in Models
    /\ {MaxPuts, MaxPutsAtOnce, MaxSettingFaults} \subseteq Nat

VARIABLES
    file,                   \* what config.json holds
    repos,                  \* launchpad-config.json of each repository, or NoConfig
    localCopy,              \* its copy in ~/.launchpad/cache: one for all repositories
    hq,                     \* "down", "wizard" or "up"
    wizard,                 \* the wizard's step and configuration so far
    service,                \* fastify.stateService: "local", or the repository it keeps
    inForce,                \* fastify.launchpadConfig
    puts,                   \* requests in flight
    plain,                  \* history: since the start no requests overlapped, none failed or changed where settings live
    putsSent, settingFaults

stgVars == <<file, repos, localCopy, hq, wizard, service, inForce, puts, plain, putsSent, settingFaults>>

NoConfig == << >>

(* mergeConfig, and every { ...current, ...body } like it.                 *)
MergeConfig(current, body) ==
    [f \in DOMAIN current \cup DOMAIN body |-> IF f \in DOMAIN body THEN body[f] ELSE current[f]]

DefaultLaunchpadConfig ==
    [stateMode |-> "local", stateRepo |-> OwnRepo, sessionType |-> "sdk", model |-> DefaultModel,
     tunnel |-> "on-demand", configured |-> FALSE, otel |-> FALSE, onboardingComplete |-> FALSE]
Fields == DOMAIN DefaultLaunchpadConfig
Configs ==
    [stateMode : {"local", "git"}, stateRepo : Repos, sessionType : {"sdk", "cli"}, model : Models,
     tunnel : {"on-demand", "always"}, configured : BOOLEAN, otel : BOOLEAN, onboardingComplete : BOOLEAN]

StgTypeOK ==
    /\ MergeConfig(DefaultLaunchpadConfig, file) \in Configs
    /\ \A r \in Repos : repos[r] = NoConfig \/ repos[r] \in Configs
    /\ localCopy = NoConfig \/ localCopy \in Configs
    /\ hq \in {"down", "wizard", "up"} /\ service \in Repos \cup {"local"}
    /\ inForce \in Configs
    /\ \A p \in puts : p.cfg \in Configs

StgInit ==
    /\ file = NoConfig /\ repos = [r \in Repos |-> NoConfig] /\ localCopy = NoConfig
    /\ hq = "down" /\ wizard = [step |-> 1, cfg |-> DefaultLaunchpadConfig]
    /\ service = "local" /\ inForce = DefaultLaunchpadConfig
    /\ puts = {} /\ plain = TRUE /\ putsSent = 0 /\ settingFaults = 0

SettingFault == settingFaults < MaxSettingFaults /\ settingFaults' = settingFaults + 1

-----------------------------------------------------------------------------
(* Loading and starting. *)

LoadLaunchpadConfig == MergeConfig(DefaultLaunchpadConfig, file)

SaveBootstrapConfig(c) == file' = [stateMode |-> c.stateMode, stateRepo |-> c.stateRepo]

(* What the state service of repository r answers: the repository's file   *)
(* if the start fetched one, or else the copy on this machine.             *)
Kept(r, fetched) == IF fetched /\ repos[r] # NoConfig THEN repos[r] ELSE localCopy

ResolveFullLaunchpadConfig(local, kept) ==
    IF local.stateMode = "git"
    THEN MergeConfig(MergeConfig(DefaultLaunchpadConfig, kept),
                     [stateMode |-> "git", stateRepo |-> local.stateRepo])
    ELSE local

(* A first start: the wizard in the terminal, or setup in the browser.     *)
StartWizard ==
    /\ hq = "down" /\ file = NoConfig
    /\ hq' = "wizard" /\ wizard' = [step |-> 1, cfg |-> LoadLaunchpadConfig]
    /\ UNCHANGED <<file, repos, localCopy, service, inForce, puts, plain, putsSent, settingFaults>>

Boot ==
    /\ hq = "down"
    /\ LET local == LoadLaunchpadConfig IN
       \E fetched \in IF local.stateMode = "git" THEN BOOLEAN ELSE {TRUE} :
        LET kept == IF local.stateMode = "git" THEN Kept(local.stateRepo, fetched) ELSE localCopy IN
        /\ IF fetched THEN UNCHANGED settingFaults ELSE SettingFault /\ kept # NoConfig
        /\ localCopy' = kept /\ plain' = fetched
        /\ service' = IF local.stateMode = "git" THEN local.stateRepo ELSE "local"
        /\ inForce' = ResolveFullLaunchpadConfig(local, kept)
    /\ hq' = "up"
    /\ UNCHANGED <<file, repos, wizard, puts, putsSent>>

StopHq ==
    /\ hq = "up" /\ SettingFault
    /\ hq' = "down" /\ puts' = {}
    /\ UNCHANGED <<file, repos, localCopy, wizard, service, inForce, plain, putsSent>>

-----------------------------------------------------------------------------
(* The terminal wizard: what each step may apply, a cancelled question and *)
(* a failed check of the tunnel command included.                          *)

StateModeStep   == {[stateMode |-> "local"]} \cup {[stateMode |-> "git", stateRepo |-> r] : r \in Repos}
CopilotPrefStep == {[sessionType |-> t] : t \in {"sdk", "cli"}}
ModelStep       == {[model |-> m] : m \in Models}
DevtunnelStep   == {[tunnel |-> "on-demand", configured |-> FALSE], [tunnel |-> "always", configured |-> TRUE]}
OtelStep        == {<< >>, [otel |-> TRUE]}
DefaultSteps    == <<StateModeStep, CopilotPrefStep, ModelStep, DevtunnelStep, OtelStep>>

(* Every step may be skipped or, by cancelling it, be the last.            *)
RunWizard ==
    /\ hq = "wizard"
    /\ \/ /\ wizard.step <= Len(DefaultSteps)
          /\ \E values \in DefaultSteps[wizard.step] \cup {<< >>} :
                wizard' = [step |-> wizard.step + 1, cfg |-> MergeConfig(wizard.cfg, values)]
          /\ UNCHANGED <<file, hq>>
       \/ /\ file' = [wizard.cfg EXCEPT !.onboardingComplete = TRUE]
          /\ hq' = "down" /\ UNCHANGED wizard
    /\ UNCHANGED <<repos, localCopy, service, inForce, puts, plain, putsSent, settingFaults>>

-----------------------------------------------------------------------------
(* The pages: the bodies they put. *)

HandleStateModeChange == {[stateMode |-> m] : m \in {"local", "git"}}
HandleValidateRepo    == {[stateRepo |-> r] : r \in Repos}
HandleCopilotChange   == [sessionType : {"sdk", "cli"}, model : Models]
HandleTunnelModeChange == [tunnel : {"on-demand", "always"}, configured : {inForce.configured}]
SaveAndFinish ==
    [stateMode : {"local"}, sessionType : {"sdk", "cli"}, model : {inForce.model}, tunnel : {inForce.tunnel},
     configured : {inForce.configured}, onboardingComplete : {TRUE}]
    \cup [stateMode : {"git"}, stateRepo : Repos, sessionType : {"sdk", "cli"}, model : {inForce.model},
          tunnel : {inForce.tunnel}, configured : {inForce.configured}, onboardingComplete : {TRUE}]
HandleOtelChange == {[otel |-> b] : b \in BOOLEAN}

-----------------------------------------------------------------------------
(* The requests. *)

Sent == putsSent < MaxPuts /\ Cardinality(puts) < MaxPutsAtOnce /\ putsSent' = putsSent + 1

(* A request in flight: what it will save, its next step, the settings it  *)
(* migrates, whether it changes the tunnel, is its object the one in force.*)
InFlight(cfg, next, tunnel) ==
    [nth |-> putsSent, cfg |-> cfg, next |-> next, migrates |-> NoConfig, tunnel |-> tunnel, applied |-> FALSE]

PutSettings(body) ==
    /\ hq = "up" /\ Sent
    /\ LET cfg == MergeConfig(inForce, body)
           switches == cfg.stateMode # inForce.stateMode
           relocates ==
             \/ cfg.stateMode = "local" /\ switches
             \/ cfg.stateMode = "git" /\ switches /\ cfg # [inForce EXCEPT !.stateMode = "git"]
             \/ cfg.stateMode = "git" /\ cfg.stateRepo # inForce.stateRepo
       IN  /\ puts' = puts \cup {InFlight(cfg, IF switches THEN "switch" ELSE "save", cfg.tunnel # inForce.tunnel)}
           /\ plain' = (plain /\ puts = {} /\ ~relocates)
    /\ UNCHANGED <<file, repos, localCopy, hq, wizard, service, inForce, settingFaults>>

PutOtel(body) ==
    /\ hq = "up" /\ Sent
    /\ puts' = puts \cup {InFlight(MergeConfig(inForce, body), "save", FALSE)}
    /\ plain' = (plain /\ puts = {})
    /\ UNCHANGED <<file, repos, localCopy, hq, wizard, service, inForce, settingFaults>>

Reset ==
    /\ hq = "up" /\ Sent
    /\ puts' = puts \cup {InFlight([LoadLaunchpadConfig EXCEPT !.onboardingComplete = FALSE], "reset", FALSE)}
    /\ plain' = (plain /\ puts = {})
    /\ UNCHANGED <<file, repos, localCopy, hq, wizard, service, inForce, settingFaults>>

ResetSaved(p) ==
    /\ p \in puts /\ p.next = "reset"
    /\ file' = p.cfg /\ puts' = puts \ {p}
    /\ UNCHANGED <<repos, localCopy, hq, wizard, service, inForce, plain, putsSent, settingFaults>>

(* stateService.saveLaunchpadConfig; the local service keeps a file that   *)
(* no start reads.                                                         *)
SaveLaunchpadConfig(to, c) ==
    IF to = "local" THEN UNCHANGED <<repos, localCopy>>
    ELSE repos' = [repos EXCEPT ![to] = c] /\ localCopy' = c

Continue(p, q) == puts' = (puts \ {p}) \cup {q}

(* fastify.launchpadConfig = updated, and on to the tunnel.                *)
Applied(p) ==
    /\ inForce' = p.cfg
    /\ puts' = {[q EXCEPT !.applied = FALSE] : q \in puts \ {p}}
               \cup (IF p.tunnel THEN {[p EXCEPT !.next = "tunnel", !.applied = TRUE]} ELSE {})

Failed(p) == SettingFault /\ plain' = FALSE

SaveSettings(p) ==
    /\ p \in puts /\ p.next = "save"
    /\ \/ /\ p.cfg.stateMode = "local"
          /\ file' = p.cfg /\ Applied(p)
          /\ UNCHANGED <<repos, localCopy, plain, settingFaults>>
       \/ /\ p.cfg.stateMode = "git"
          /\ SaveLaunchpadConfig(service, p.cfg) /\ Continue(p, [p EXCEPT !.next = "bootstrap"])
          /\ UNCHANGED <<file, inForce, plain, settingFaults>>
       \/ /\ p.cfg.stateMode = "git"
          /\ Failed(p) /\ puts' = puts \ {p}
          /\ UNCHANGED <<file, repos, localCopy, inForce>>
    /\ UNCHANGED <<hq, wizard, service, putsSent>>

SaveBootstrap(p) ==
    /\ p \in puts /\ p.next = "bootstrap"
    /\ SaveBootstrapConfig(p.cfg) /\ Applied(p)
    /\ UNCHANGED <<repos, localCopy, hq, wizard, service, plain, putsSent, settingFaults>>

(* reinitializeStateService: the new service is built, and syncs.          *)
Reinitialize(p) ==
    /\ p \in puts /\ p.next = "switch" /\ p.cfg.stateMode = "git"
    /\ localCopy' \in {Kept(p.cfg.stateRepo, TRUE), localCopy}
    /\ Continue(p, [p EXCEPT !.next = "migrate", !.migrates = IF inForce.stateMode = "local" THEN inForce ELSE NoConfig])
    /\ UNCHANGED <<file, repos, hq, wizard, service, inForce, plain, putsSent, settingFaults>>

(* From local to git the settings in force until now are saved, not the    *)
(* new ones.  A failure is logged: the request goes on, nothing swapped.   *)
MigrateStateSnapshot(p) ==
    /\ p \in puts /\ p.next = "migrate"
    /\ \/ /\ IF p.migrates = NoConfig THEN UNCHANGED <<repos, localCopy>>
             ELSE SaveLaunchpadConfig(p.cfg.stateRepo, p.migrates)
          /\ Continue(p, [p EXCEPT !.next = "swap"])
          /\ UNCHANGED <<plain, settingFaults>>
       \/ /\ Failed(p)
          /\ p.migrates # NoConfig
          /\ UNCHANGED <<repos, localCopy>> \/ SaveLaunchpadConfig(p.cfg.stateRepo, p.migrates)
          /\ puts' = (puts \ {p}) \cup (IF p.tunnel THEN {[p EXCEPT !.next = "tunnel"]} ELSE {})
    /\ UNCHANGED <<file, hq, wizard, service, inForce, putsSent>>

Swap(p) ==
    /\ p \in puts
    /\ \/ /\ p.next = "switch" /\ p.cfg.stateMode = "local"
          /\ service' = "local"
          /\ UNCHANGED <<file, repos, localCopy>>
       \/ /\ p.next = "swap"
          /\ SaveBootstrapConfig(p.cfg)
          /\ IF p.migrates = NoConfig THEN SaveLaunchpadConfig(p.cfg.stateRepo, p.cfg) ELSE UNCHANGED <<repos, localCopy>>
          /\ service' = p.cfg.stateRepo
    /\ Applied(p)
    /\ UNCHANGED <<hq, wizard, plain, putsSent, settingFaults>>

(* The request's object, and the settings in force if they are that object.*)
SetConfigured(p, b, next) ==
    /\ Continue(p, [p EXCEPT !.cfg.configured = b, !.next = next])
    /\ inForce' = IF p.applied THEN [inForce EXCEPT !.configured = b] ELSE inForce

(* tunnelManager.start and stop.                                           *)
TunnelChanged(p) ==
    /\ p \in puts /\ p.next = "tunnel"
    /\ \/ p.cfg.tunnel = "always" /\ \E started \in BOOLEAN : SetConfigured(p, started, "persist")
       \/ p.cfg.tunnel = "on-demand" /\ SetConfigured(p, FALSE, "persist")
       \/ p.cfg.tunnel = "on-demand" /\ puts' = puts \ {p} /\ UNCHANGED inForce
    /\ UNCHANGED <<file, repos, localCopy, hq, wizard, service, plain, putsSent, settingFaults>>

PersistLocally(c) == file' = c /\ UNCHANGED <<repos, localCopy>>
Persist(c) ==
    IF c.stateMode = "git" THEN SaveLaunchpadConfig(service, c) /\ UNCHANGED file
    ELSE file' = c /\ UNCHANGED <<repos, localCopy>>

PersistTunnel(p) ==
    /\ p \in puts /\ p.next = "persist"
    /\ \/ /\ Persist(p.cfg) /\ puts' = puts \ {p}
          /\ UNCHANGED <<inForce, plain, settingFaults>>
       \/ /\ p.cfg.stateMode = "git" /\ service # "local" /\ Failed(p)
          /\ IF p.cfg.tunnel = "always" /\ p.cfg.configured THEN SetConfigured(p, FALSE, "persist")
             ELSE puts' = puts \ {p} /\ UNCHANGED inForce
          /\ UNCHANGED <<file, repos, localCopy>>
    /\ UNCHANGED <<hq, wizard, service, putsSent>>

StgNext ==
    \/ StartWizard \/ RunWizard \/ Boot \/ StopHq \/ Reset
    \/ \E b \in HandleStateModeChange \cup HandleValidateRepo \cup HandleCopilotChange
                \cup HandleTunnelModeChange \cup SaveAndFinish : PutSettings(b)
    \/ \E b \in HandleOtelChange : PutOtel(b)
    \/ \E p \in puts : \/ ResetSaved(p) \/ SaveSettings(p) \/ SaveBootstrap(p) \/ Reinitialize(p)
                       \/ MigrateStateSnapshot(p) \/ Swap(p) \/ TunnelChanged(p) \/ PersistTunnel(p)

StgSpec == StgInit /\ [][StgNext]_stgVars

-----------------------------------------------------------------------------
(* Properties. *)

(* As long as requests come one after another, none fails and none moves       *)
(* the settings to another place in a way that leaves some behind, a       *)
(* restart finds the settings in force: whatever combination of bootstrap  *)
(* file, state repository, machine copy and late save after a tunnel start *)
(* they are spread over.  (Only the reset of the wizard's mark, which goes *)
(* to the file alone, is left out.)                                        *)
SettingsSurviveRestart ==
    hq = "up" /\ puts = {} /\ plain =>
        LET local == LoadLaunchpadConfig
            again == ResolveFullLaunchpadConfig(local, IF local.stateMode = "git" THEN Kept(local.stateRepo, TRUE) ELSE NoConfig)
        IN  \A f \in Fields \ {"onboardingComplete"} : again[f] = inForce[f]
=============================================================================

---------------------------- MODULE PluginManager ----------------------------
(***************************************************************************)
(* The life of the plugins inside PluginManager, as main() drives it: load *)
(* a profile, start the selected plugins (CTK first, the static factory as *)
(* a fallback), run the event loop, stop in reverse, destroy the manager.  *)
(* All of it runs on the main thread; one step is one turn of the start or *)
(* stop loop.  The start plan is any one PluginGraph!IsStartPlan allows:   *)
(* module PluginStartup shows that buildStartPlan returns such a plan.     *)
(***************************************************************************)
EXTENDS PluginGraph

CONSTANTS Selected,      \* uniqueSelected: the distinct plugins to start
          Manifests,     \* the dependencies their manifests may declare
          CtkAvailable   \* OSGI_CTK_AVAILABLE: built with the CTK back end

ASSUME SelectedAssumption == Selected \subseteq Names /\ IsFiniteSet(Selected)
ASSUME ManifestsAssumption == Manifests \subseteq [Selected -> SUBSET Names]
ASSUME CtkAssumption == CtkAvailable \in BOOLEAN

VARIABLES
    deps,           \* dependencies of the selected plugins, from their manifests
    factories,      \* the plugins registerPluginFactory was called for
    phase,          \* where main() is
    profileLoaded,
    startPlan,      \* startPlan.orderedPlugins
    runtimeOrder,   \* runtimeOrder_: startPlan, then the blocked plugins
    at,             \* loop index of startPlugins and stopPlugins
    state,          \* runtimeEntries_[p].state; "none" if there is no entry
    backend,        \* what runs p: "none", "ctk" (ctkManaged), "factory" (instance)
    ctkReady,       \* ctkReady in startPlugins
    ctkUp,          \* ctkRuntime_ != nullptr
    installed,      \* ctkRuntime_->installedPlugins
    startOk,        \* the result of startPlugins
    exitCode,       \* what main() returns; -1 while it runs
    held            \* the dependencies that ran when p was started, whose
                    \* services p may therefore be holding

vars == <<deps, factories, phase, profileLoaded, startPlan, runtimeOrder, at,
          state, backend, ctkReady, ctkUp, installed, startOk, exitCode, held>>

setup == <<deps, factories>>
planVars == <<startPlan, runtimeOrder>>
ctkVars == <<ctkReady, ctkUp, installed>>

Phases == {"created", "selected", "starting", "started", "running",
           "stopping", "stopped", "destroyed"}

Init ==
    /\ deps \in Manifests
    /\ factories \in SUBSET Selected
    /\ phase = "created"
    /\ profileLoaded = FALSE
    /\ startPlan = <<>>
    /\ runtimeOrder = <<>>
    /\ at = 1
    /\ state = [p \in Selected |-> "none"]
    /\ backend = [p \in Selected |-> "none"]
    /\ ctkReady = FALSE
    /\ ctkUp = FALSE
    /\ installed = {}
    /\ startOk = FALSE
    /\ exitCode = -1
    /\ held = [p \in Selected |-> {}]

-----------------------------------------------------------------------------
(* main(): the requested profile, then the default one.  With neither, no  *)
(* plugin is started and the window comes up empty.                        *)
LoadProfile ==
    /\ phase = "created"
    /\ \E loaded \in BOOLEAN :
           /\ profileLoaded' = loaded
           /\ phase' = IF loaded THEN "selected" ELSE "started"
    /\ UNCHANGED <<setup, planVars, at, state, backend, ctkVars, startOk, exitCode, held>>

(* startPlugins up to its start loop: CTK is brought up if this build has  *)
(* it (which may fail), the plan is made, every plugin becomes "loaded".   *)
BeginStart ==
    /\ phase = "selected"
    /\ \E size \in 0..Cardinality(Selected) : \E ordered \in [1..size -> Selected] :
           LET missing == {p \in Selected : ~(deps[p] \subseteq Selected)}
               blocked == Selected \ Range(ordered)
           IN  /\ IsStartPlan(Selected, deps, ordered, missing, blocked \ missing)
               /\ startPlan' = ordered
               /\ \E rest \in [1..Cardinality(blocked) -> blocked] :
                      /\ Range(rest) = blocked
                      /\ runtimeOrder' = ordered \o rest
    /\ \E up \in (IF CtkAvailable THEN BOOLEAN ELSE {FALSE}) :
           ctkReady' = up /\ ctkUp' = up
    /\ state' = [p \in Selected |-> "loaded"]
    /\ startOk' = TRUE
    /\ at' = 1
    /\ phase' = "starting"
    /\ UNCHANGED <<setup, profileLoaded, backend, installed, exitCode, held>>

-----------------------------------------------------------------------------
(* The start loop.                                                         *)

Starting(p) ==
    /\ phase = "starting"
    /\ at <= Len(startPlan)
    /\ p = startPlan[at]
    /\ at' = at + 1
    /\ UNCHANGED <<setup, phase, profileLoaded, planVars, ctkReady, ctkUp, exitCode>>

(* p is up: from inside start() it could look up the services of those of  *)
(* its dependencies that are running.                                      *)
NowRunning(p, by) ==
    /\ state' = [state EXCEPT ![p] = "running"]
    /\ backend' = [backend EXCEPT ![p] = by]
    /\ held' = [held EXCEPT ![p] = {d \in deps[p] \cap Selected : state[d] = "running"}]
    /\ UNCHANGED startOk

StartByCtk(p) ==
    /\ Starting(p)
    /\ ctkReady
    /\ NowRunning(p, "ctk")
    /\ installed' = installed \cup {p}

\* CTK is up but the plugin's library was not built: skipped, not failed.
SkipNotBuilt(p) ==
    /\ Starting(p)
    /\ ctkReady
    /\ state' = [state EXCEPT ![p] = "stopped"]
    /\ UNCHANGED <<backend, installed, startOk, held>>

(* CTK is down, or could not install or start the plugin: the factory is   *)
(* tried in the same turn of the loop.                                     *)
StartByFactory(p) ==
    /\ Starting(p)
    /\ p \in factories
    /\ NowRunning(p, "factory")
    /\ UNCHANGED installed

\* Mutant: a failed start does not count against the result.
FailUncounted(p) ==
    /\ Starting(p)
    /\ state' = [state EXCEPT ![p] = "failed"]
    /\ UNCHANGED <<backend, installed, startOk, held>>

(* No factory, a null instance, or an exception out of start(): the plugin *)
(* has failed.  The loop goes on, dependents of p included.                *)
FailToStart(p) ==
    /\ Starting(p)
    /\ state' = [state EXCEPT ![p] = "failed"]
    /\ startOk' = FALSE
    /\ UNCHANGED <<backend, installed, held>>

\* After the loop the blocked plugins are marked, and startPlugins returns.
FinishStart ==
    /\ phase = "starting"
    /\ at > Len(startPlan)
    /\ LET blocked == Selected \ Range(startPlan)
       IN  /\ state' = [p \in Selected |-> IF p \in blocked THEN "failed" ELSE state[p]]
           /\ startOk' = (startOk /\ blocked = {})
    /\ phase' = "started"
    /\ UNCHANGED <<setup, profileLoaded, planVars, at, backend, ctkVars, exitCode, held>>

-----------------------------------------------------------------------------
(* main() again: the window, the event loop, and the way out.              *)

ShowWindow ==
    /\ phase = "started"
    /\ phase' = "running"
    /\ UNCHANGED <<setup, profileLoaded, planVars, at, state, backend, ctkVars,
                   startOk, exitCode, held>>

(* The QML could not be loaded: main() stops the plugins and returns 1.    *)
WindowFails ==
    /\ phase = "started"
    /\ phase' = "stopping"
    /\ at' = Len(runtimeOrder)
    /\ exitCode' = 1
    /\ UNCHANGED <<setup, profileLoaded, planVars, state, backend, ctkVars, startOk, held>>

(* aboutToQuit stops the plugins.  main() then returns the code given to   *)
(* quit() (3 stands for every code but 0), or 2 in place of 0 if the start *)
(* was not a clean one.                                                    *)
AboutToQuit ==
    /\ phase = "running"
    /\ phase' = "stopping"
    /\ at' = Len(runtimeOrder)
    /\ \E asked \in {0, 3} :
           exitCode' = IF (~profileLoaded \/ ~startOk) /\ asked = 0 THEN 2 ELSE asked
    /\ UNCHANGED <<setup, profileLoaded, planVars, state, backend, ctkVars, startOk, held>>

-----------------------------------------------------------------------------
(* The stop loop, from the back of runtimeOrder_.                          *)

\* Mutant: the loop runs from the front.
StoppingForward(p) ==
    /\ phase = "stopping"
    /\ at >= 1
    /\ p = runtimeOrder[Len(runtimeOrder) + 1 - at]
    /\ at' = at - 1
    /\ UNCHANGED <<setup, phase, profileLoaded, planVars, ctkReady, ctkUp,
                   startOk, exitCode, held>>

Stopping(p) ==
    /\ phase = "stopping"
    /\ at >= 1
    /\ p = runtimeOrder[at]
    /\ at' = at - 1
    /\ UNCHANGED <<setup, phase, profileLoaded, planVars, ctkReady, ctkUp,
                   startOk, exitCode, held>>

SkipNotRunning(p) ==
    /\ Stopping(p)
    /\ state[p] # "running"
    /\ UNCHANGED <<state, backend, installed>>

\* Mutant: the instance is destroyed inside the try block, after stop().
StopThenReset(p) ==
    /\ Stopping(p)
    /\ state[p] = "running"
    /\ \E verdict \in {"stopped", "failed"} :
           /\ state' = [state EXCEPT ![p] = verdict]
           /\ backend' = IF backend[p] = "factory" /\ verdict = "stopped"
                         THEN [backend EXCEPT ![p] = "none"] ELSE backend
    /\ installed' = IF backend[p] = "ctk" THEN installed \ {p} ELSE installed

\* Mutant: a stopped CTK plugin is left in installedPlugins.
StopKeepsInstalled(p) ==
    /\ Stopping(p)
    /\ state[p] = "running"
    /\ \E verdict \in {"stopped", "failed"} : state' = [state EXCEPT ![p] = verdict]
    /\ backend' = IF backend[p] = "factory" THEN [backend EXCEPT ![p] = "none"] ELSE backend
    /\ UNCHANGED installed

(* stop() returns or throws.  A factory instance is destroyed either way;  *)
(* a CTK plugin leaves installedPlugins either way and stays ctkManaged.   *)
StopRunning(p) ==
    /\ Stopping(p)
    /\ state[p] = "running"
    /\ \E verdict \in {"stopped", "failed"} : state' = [state EXCEPT ![p] = verdict]
    /\ backend' = IF backend[p] = "factory" THEN [backend EXCEPT ![p] = "none"] ELSE backend
    /\ installed' = IF backend[p] = "ctk" THEN installed \ {p} ELSE installed

ShutdownCtk ==
    /\ phase = "stopping"
    /\ at < 1
    /\ ctkUp' = FALSE
    /\ installed' = {}
    /\ phase' = "stopped"
    /\ UNCHANGED <<setup, profileLoaded, planVars, at, state, backend, ctkReady,
                   startOk, exitCode, held>>

(* ~PluginManager calls stopPlugins once more, when main() returns; with   *)
(* every plugin stopped the second pass only looks.                        *)
Destroy ==
    /\ phase = "stopped"
    /\ phase' = "destroyed"
    /\ UNCHANGED <<setup, profileLoaded, planVars, at, state, backend, ctkVars,
                   startOk, exitCode, held>>

StartStep(p) ==
    StartByCtk(p) \/ SkipNotBuilt(p) \/ StartByFactory(p) \/ FailToStart(p)

Next ==
    \/ LoadProfile \/ BeginStart \/ FinishStart
    \/ ShowWindow \/ WindowFails \/ AboutToQuit \/ ShutdownCtk \/ Destroy
    \/ \E p \in Selected : StartStep(p) \/ SkipNotRunning(p) \/ StopRunning(p)

Spec == Init /\ [][Next]_vars
-----------------------------------------------------------------------------
PluginState == {"none", "loaded", "running", "stopped", "failed"}

TypeOK ==
    /\ deps \in [Selected -> SUBSET Names]
    /\ factories \subseteq Selected
    /\ phase \in Phases
    /\ profileLoaded \in BOOLEAN
    /\ startPlan \in Seq(Selected)
    /\ runtimeOrder \in Seq(Selected)
    /\ at \in 0..(Len(runtimeOrder) + 1)
    /\ state \in [Selected -> PluginState]
    /\ backend \in [Selected -> {"none", "ctk", "factory"}]
    /\ ctkReady \in BOOLEAN
    /\ ctkUp \in BOOLEAN
    /\ installed \subseteq Selected
    /\ startOk \in BOOLEAN
    /\ exitCode \in {-1, 0, 1, 2, 3}
    /\ held \in [Selected -> SUBSET Selected]

(* The dependencies a running plugin has are those it found running when   *)
(* it started: startPlugins never brings one up behind its user's back,    *)
(* too late for the lookups in start(), and stopPlugins never takes one    *)
(* away under its users.                                                   *)
HeldDependenciesRun ==
    \A p \in Selected : state[p] = "running" =>
        held[p] = {d \in deps[p] \cap Selected : state[d] = "running"}

(* The bookkeeping of the two back ends agrees with the plugin states: CTK *)
(* is asked to stop exactly the plugins it runs, a factory instance exists *)
(* exactly as long as it runs, and CTK is up as long as it runs something. *)
BackendsAgree ==
    /\ installed = {p \in Selected : state[p] = "running" /\ backend[p] = "ctk"}
    /\ \A p \in Selected : backend[p] = "factory" => state[p] = "running"
    /\ installed # {} => ctkUp

(* startPlugins leaves a verdict on every plugin it was given, and reports *)
(* success exactly when none of them failed.                               *)
EveryPluginHasVerdict ==
    phase = "started" /\ profileLoaded =>
        /\ \A p \in Selected : state[p] \in {"running", "stopped", "failed"}
        /\ startOk <=> \A p \in Selected : state[p] # "failed"

(* When main() is through with the manager nothing runs any more, even if  *)
(* stop() threw; and a clean exit code means a clean start.                *)
NothingSurvivesShutdown ==
    phase \in {"stopped", "destroyed"} =>
        /\ \A p \in Selected : state[p] \in {"none", "stopped", "failed"}
        /\ \A p \in Selected : backend[p] # "factory"
        /\ installed = {} /\ ~ctkUp
        /\ exitCode = 0 => profileLoaded /\ startOk
=============================================================================

------------------------- MODULE PluginManagerProofs -------------------------
(***************************************************************************)
(* For every selection, dependency graph, set of factories and outcome of  *)
(* every start and stop: the safety properties of PluginManager.           *)
(***************************************************************************)
EXTENDS PluginManager, FiniteSetTheorems, TLAPS

\* runtimeOrder_ is the start plan, a topological order, and then the rest.
PlanInv ==
    /\ \A i, j \in 1..Len(startPlan) : startPlan[i] = startPlan[j] => i = j
    /\ Len(startPlan) <= Len(runtimeOrder)
    /\ \A i \in 1..Len(startPlan) : startPlan[i] = runtimeOrder[i]
    /\ \A i \in (Len(startPlan) + 1)..Len(runtimeOrder) :
           runtimeOrder[i] \notin Range(startPlan)
    /\ \A i \in 1..Len(startPlan) : \A d \in deps[startPlan[i]] \cap Range(startPlan) :
           \E j \in 1..(i - 1) : startPlan[j] = d

\* Only planned plugins run; the loops have not reached what is ahead of them.
LoopInv ==
    /\ \A p \in Selected : state[p] = "running" => p \in Range(startPlan)
    /\ phase = "starting" =>
           /\ at >= 1 /\ at <= Len(startPlan) + 1
           /\ \A i \in at..Len(startPlan) : state[startPlan[i]] = "loaded"
           /\ \A i \in 1..(at - 1) : state[startPlan[i]] # "loaded"
           /\ \A p \in Selected \ Range(startPlan) : state[p] = "loaded"
           /\ ctkReady => ctkUp
    /\ phase = "stopping" =>
           /\ at <= Len(runtimeOrder)
           /\ \A i \in (at + 1)..Len(runtimeOrder) : state[runtimeOrder[i]] # "running"
    /\ phase \in {"stopped", "destroyed"} => \A p \in Selected : state[p] # "running"

\* What startPlugins has found so far, and what main() makes of it.
VerdictInv ==
    /\ phase \in {"created", "selected"} => \A p \in Selected : state[p] = "none"
    /\ phase \notin {"created", "selected"} /\ ~profileLoaded =>
           \A p \in Selected : state[p] = "none"
    /\ phase = "selected" => profileLoaded
    /\ phase = "starting" =>
           /\ profileLoaded
           /\ \A p \in Selected : state[p] # "none"
           /\ startOk <=> \A p \in Selected : state[p] # "failed"
    /\ phase = "started" /\ profileLoaded =>
           /\ \A p \in Selected : state[p] # "none"
           /\ startOk <=> \A p \in Selected : state[p] # "failed"
    /\ phase \notin {"created", "selected", "starting"} =>
           \A p \in Selected : state[p] # "loaded"
    /\ phase \in {"stopping", "stopped", "destroyed"} =>
           (exitCode = 0 => profileLoaded /\ startOk)
    /\ phase \in {"stopped", "destroyed"} => ~ctkUp

IInv == TypeOK /\ PlanInv /\ LoopInv /\ VerdictInv /\ HeldDependenciesRun /\ BackendsAgree

LEMMA FunctionIsSequence ==
  ASSUME NEW S, NEW n \in Nat, NEW f \in [1..n -> S]
  PROVE  f \in Seq(S) /\ Len(f) = n
OBVIOUS

LEMMA ConcatElements ==
  ASSUME NEW S, NEW s \in Seq(S), NEW t \in Seq(S)
  PROVE  /\ s \o t \in Seq(S) /\ Len(s \o t) = Len(s) + Len(t)
         /\ \A i \in 1..Len(s) : (s \o t)[i] = s[i]
         /\ \A i \in (Len(s) + 1)..(Len(s) + Len(t)) : (s \o t)[i] = t[i - Len(s)]
OBVIOUS

(* Before startPlugins has entered its loop nothing runs, so the parts of  *)
(* the invariant about running plugins hold for want of any.               *)
LEMMA InitInvariant == Init => IInv
<1> SUFFICES ASSUME Init PROVE IInv OBVIOUS
<1>1. TypeOK
  <2>1. deps \in [Selected -> SUBSET Names]
    BY ManifestsAssumption DEF Init
  <2>2. startPlan \in Seq(Selected) /\ runtimeOrder \in Seq(Selected) /\ at \in 0..(Len(runtimeOrder) + 1)
    BY DEF Init
  <2>3. state \in [Selected -> PluginState] /\ backend \in [Selected -> {"none", "ctk", "factory"}]
    BY DEF Init, PluginState
  <2>4. held \in [Selected -> SUBSET Selected]
    BY DEF Init
  <2> QED BY <2>1, <2>2, <2>3, <2>4 DEF Init, TypeOK, Phases
<1>2. PlanInv /\ LoopInv /\ VerdictInv
  BY DEF Init, PlanInv, LoopInv, VerdictInv
<1>3. HeldDependenciesRun /\ BackendsAgree
  BY DEF Init, HeldDependenciesRun, BackendsAgree
<1> QED BY <1>1, <1>2, <1>3 DEF IInv

LEMMA StutterStep == ASSUME IInv, UNCHANGED vars PROVE IInv'
BY DEF IInv, TypeOK, PlanInv, LoopInv, VerdictInv, HeldDependenciesRun, BackendsAgree,
       PluginState, Phases, vars

-----------------------------------------------------------------------------
LEMMA LoadProfileStep == ASSUME IInv, LoadProfile PROVE IInv'
<1> USE DEF IInv, LoadProfile, setup, planVars, ctkVars
<1>1. TypeOK' BY DEF TypeOK, Phases, PluginState
<1>2. PlanInv' BY DEF PlanInv
<1>3. LoopInv' BY DEF LoopInv, TypeOK
<1>4. VerdictInv' BY DEF VerdictInv, TypeOK
<1>5. HeldDependenciesRun' BY DEF HeldDependenciesRun
<1>6. BackendsAgree' BY DEF BackendsAgree
<1> QED BY <1>1, <1>2, <1>3, <1>4, <1>5, <1>6

(* The order IsStartPlan promises is the one PlanInv keeps: a planned      *)
(* dependency of a planned plugin is one of its candidates.                *)
LEMMA BeginStartStep == ASSUME IInv, BeginStart PROVE IInv'
<1> USE DEF IInv
<1>1. PICK size \in 0..Cardinality(Selected) : \E ordered \in [1..size -> Selected] :
        LET missing == {p \in Selected : ~(deps[p] \subseteq Selected)}
            blocked == Selected \ Range(ordered)
        IN  /\ IsStartPlan(Selected, deps, ordered, missing, blocked \ missing)
            /\ startPlan' = ordered
            /\ \E rest \in [1..Cardinality(blocked) -> blocked] :
                   /\ Range(rest) = blocked
                   /\ runtimeOrder' = ordered \o rest
  BY DEF BeginStart
<1>2. PICK ordered \in [1..size -> Selected] :
        LET missing == {p \in Selected : ~(deps[p] \subseteq Selected)}
            blocked == Selected \ Range(ordered)
        IN  /\ IsStartPlan(Selected, deps, ordered, missing, blocked \ missing)
            /\ startPlan' = ordered
            /\ \E rest \in [1..Cardinality(blocked) -> blocked] :
                   /\ Range(rest) = blocked
                   /\ runtimeOrder' = ordered \o rest
  BY <1>1
<1> DEFINE blocked == Selected \ Range(ordered)
<1>3. PICK rest \in [1..Cardinality(blocked) -> blocked] :
        Range(rest) = blocked /\ runtimeOrder' = ordered \o rest
  BY <1>2
<1>4. size \in Nat /\ Cardinality(blocked) \in Nat
  BY SelectedAssumption, FS_CardinalityType, FS_Subset
<1>5. ordered \in Seq(Selected) /\ rest \in Seq(Selected) /\ Len(ordered) = size
  <2>1. ordered \in Seq(Selected) /\ Len(ordered) = size
    BY <1>4, FunctionIsSequence
  <2>2. rest \in [1..Cardinality(blocked) -> Selected]
    OBVIOUS
  <2> HIDE DEF blocked
  <2>3. rest \in Seq(Selected)
    BY <1>4, <2>2, FunctionIsSequence
  <2> QED BY <2>1, <2>3
<1>6. /\ startPlan' = ordered
      /\ runtimeOrder' \in Seq(Selected)
      /\ Len(runtimeOrder') = Len(ordered) + Len(rest)
      /\ \A i \in 1..Len(ordered) : runtimeOrder'[i] = ordered[i]
      /\ \A i \in (Len(ordered) + 1)..Len(runtimeOrder') :
             runtimeOrder'[i] = rest[i - Len(ordered)]
  <2>1. startPlan' = ordered /\ runtimeOrder' = ordered \o rest
    BY <1>2, <1>3
  <2> QED BY <1>5, <2>1, ConcatElements
<1>7. \A i \in 1..Len(rest) : rest[i] \notin Range(ordered)
  <2>1. DOMAIN rest = 1..Len(rest)
    BY <1>5
  <2> QED BY <1>3, <2>1 DEF Range
<1>8. TypeOK'
  <2>1. at' \in 0..(Len(runtimeOrder') + 1)
    BY <1>5, <1>6 DEF BeginStart
  <2> QED BY <1>5, <1>6, <2>1 DEF TypeOK, BeginStart, setup, PluginState, Phases
<1>9. PlanInv'
  <2>1. \A i, j \in 1..Len(ordered) : ordered[i] = ordered[j] => i = j
    BY <1>2 DEF IsStartPlan
  <2>2. \A i \in 1..Len(ordered) : \A d \in deps[ordered[i]] \cap Range(ordered) :
           \E j \in 1..(i - 1) : ordered[j] = d
    BY <1>2 DEF IsStartPlan
  <2>3. deps' = deps
    BY DEF BeginStart, setup
  <2>4. Len(startPlan') <= Len(runtimeOrder')
    BY <1>5, <1>6
  <2>5. \A i \in (Len(startPlan') + 1)..Len(runtimeOrder') :
           runtimeOrder'[i] \notin Range(startPlan')
    <3> TAKE i \in (Len(startPlan') + 1)..Len(runtimeOrder')
    <3> DEFINE m == Len(ordered)
               n == Len(rest)
    <3>2. m \in Nat /\ n \in Nat
      BY <1>5
    <3>3. i \in (m + 1)..(m + n)
      BY <1>6
    <3>4. runtimeOrder'[i] = rest[i - m]
      BY <1>6
    <3> HIDE DEF m, n
    <3>5. i - m \in 1..n
      BY <3>2, <3>3
    <3>1. i - Len(ordered) \in 1..Len(rest) /\ runtimeOrder'[i] = rest[i - Len(ordered)]
      BY <3>4, <3>5 DEF m, n
    <3> QED BY <1>6, <1>7, <3>1
  <2>6. \A i \in 1..Len(startPlan') : startPlan'[i] = runtimeOrder'[i]
    BY <1>6
  <2>7. /\ \A i, j \in 1..Len(startPlan') : startPlan'[i] = startPlan'[j] => i = j
        /\ \A i \in 1..Len(startPlan') :
               \A d \in deps'[startPlan'[i]] \cap Range(startPlan') :
                   \E j \in 1..(i - 1) : startPlan'[j] = d
    BY <1>6, <2>1, <2>2, <2>3
  <2> QED BY <2>4, <2>5, <2>6, <2>7 DEF PlanInv
<1>10. \A p \in Selected : state'[p] = "loaded" /\ state[p] = "none"
  BY DEF BeginStart, VerdictInv
<1>11. LoopInv'
  <2>1. phase' = "starting" /\ at' = 1 /\ (ctkReady' => ctkUp')
    BY DEF BeginStart
  <2>2. \A i \in 1..Len(startPlan') : startPlan'[i] \in Selected
    BY <1>5, <1>6
  <2> QED BY <1>10, <2>1, <2>2, <1>5, <1>6 DEF LoopInv
<1>12. VerdictInv'
  BY <1>10 DEF BeginStart, VerdictInv
<1>13. HeldDependenciesRun'
  BY <1>10 DEF HeldDependenciesRun
<1>14. BackendsAgree'
  BY <1>10 DEF BeginStart, BackendsAgree
<1> QED BY <1>8, <1>9, <1>11, <1>12, <1>13, <1>14

-----------------------------------------------------------------------------
(* The plugin whose turn it is has not been started, does not depend on    *)
(* itself, and no running plugin depends on it: those came before it.      *)
LEMMA TurnFacts ==
  ASSUME IInv, NEW p \in Selected, Starting(p)
  PROVE  /\ phase = "starting" /\ at \in 1..Len(startPlan) /\ p = startPlan[at]
         /\ state[p] = "loaded" /\ p \in Range(startPlan)
         /\ p \notin deps[p]
         /\ \A q \in Selected : state[q] = "running" => p \notin deps[q]
         /\ \A i \in 1..Len(startPlan) : startPlan[i] = p => i = at
<1> USE DEF IInv
<1>1. phase = "starting" /\ at \in 1..Len(startPlan) /\ p = startPlan[at]
  BY DEF Starting, LoopInv, TypeOK
<1>2. state[p] = "loaded" /\ p \in Range(startPlan)
  BY <1>1 DEF LoopInv, TypeOK, Range
<1>3. \A i \in 1..Len(startPlan) : startPlan[i] = p => i = at
  BY <1>1 DEF PlanInv
<1>4. p \notin deps[p]
  <2> SUFFICES ASSUME p \in deps[p] PROVE FALSE OBVIOUS
  <2>1. PICK j \in 1..(at - 1) : startPlan[j] = p
    BY <1>1, <1>2 DEF PlanInv
  <2> QED BY <2>1, <1>1, <1>3 DEF TypeOK
<1>5. ASSUME NEW q \in Selected, state[q] = "running", p \in deps[q] PROVE FALSE
  <2>1. PICK i \in 1..Len(startPlan) : startPlan[i] = q
    BY <1>5 DEF LoopInv, TypeOK, Range
  <2>2. PICK j \in 1..(i - 1) : startPlan[j] = p
    BY <1>2, <1>5, <2>1 DEF PlanInv
  <2>3. j = at
    BY <1>3, <2>1, <2>2 DEF TypeOK
  <2>4. state[q] = "loaded"
    BY <1>1, <2>1, <2>2, <2>3 DEF LoopInv, TypeOK
  <2> QED BY <2>4, <1>5
<1> QED BY <1>1, <1>2, <1>3, <1>4, <1>5

(* A turn of the start loop that ends with p in any state but "loaded",    *)
(* whichever back end was used, keeps the plan and the loop in step.       *)
LEMMA TurnStep ==
  ASSUME IInv, NEW p \in Selected, StartStep(p)
  PROVE  TypeOK' /\ PlanInv' /\ LoopInv' /\ VerdictInv'
<1> USE DEF IInv
<1>1. Starting(p)
  BY DEF StartStep, StartByCtk, SkipNotBuilt, StartByFactory, FailToStart
<1>2. /\ phase = "starting" /\ at \in 1..Len(startPlan) /\ p = startPlan[at]
      /\ state[p] = "loaded" /\ p \in Range(startPlan)
      /\ \A i \in 1..Len(startPlan) : startPlan[i] = p => i = at
  BY <1>1, TurnFacts
<1>3. /\ at' = at + 1 /\ phase' = phase /\ profileLoaded' = profileLoaded
      /\ deps' = deps /\ factories' = factories
      /\ startPlan' = startPlan /\ runtimeOrder' = runtimeOrder
      /\ ctkReady' = ctkReady /\ ctkUp' = ctkUp /\ exitCode' = exitCode
  BY <1>1 DEF Starting, setup, planVars
<1>4. PICK s \in {"running", "stopped", "failed"} :
        /\ state' = [state EXCEPT ![p] = s]
        /\ startOk' = (startOk /\ s # "failed")
  BY DEF TypeOK, StartStep, StartByCtk, SkipNotBuilt, StartByFactory, FailToStart, NowRunning
<1>5. TypeOK'
  <2>1. at' \in 0..(Len(runtimeOrder') + 1)
    BY <1>2, <1>3 DEF PlanInv, TypeOK
  <2>2. state' \in [Selected -> PluginState] /\ startOk' \in BOOLEAN
    BY <1>4 DEF TypeOK, PluginState
  <2>3. backend' \in [Selected -> {"none", "ctk", "factory"}]
    BY DEF TypeOK, StartStep, StartByCtk, SkipNotBuilt, StartByFactory, FailToStart, NowRunning
  <2>4. installed' \subseteq Selected
    BY DEF TypeOK, StartStep, StartByCtk, SkipNotBuilt, StartByFactory, FailToStart
  <2>5. held' \in [Selected -> SUBSET Selected]
    BY DEF TypeOK, StartStep, StartByCtk, SkipNotBuilt, StartByFactory, FailToStart, NowRunning
  <2> QED BY <1>3, <2>1, <2>2, <2>3, <2>4, <2>5 DEF TypeOK
<1>6. PlanInv'
  BY <1>3 DEF PlanInv
<1>7. \A q \in Selected : state'[q] = IF q = p THEN s ELSE state[q]
  BY <1>4 DEF TypeOK
<1>8. \A i \in 1..Len(startPlan) : startPlan[i] \in Selected
  BY DEF TypeOK
<1>9. LoopInv'
  <2>1. \A q \in Selected : state'[q] = "running" => q \in Range(startPlan)
    BY <1>2, <1>7 DEF LoopInv
  <2>2. at' >= 1 /\ at' <= Len(startPlan) + 1
    BY <1>2, <1>3 DEF TypeOK
  <2>3. \A i \in at'..Len(startPlan) : state'[startPlan[i]] = "loaded"
    <3> SUFFICES ASSUME NEW i \in at'..Len(startPlan) PROVE state'[startPlan[i]] = "loaded"
      OBVIOUS
    <3>1. i \in at..Len(startPlan) /\ i \in 1..Len(startPlan) /\ i # at
      BY <1>2, <1>3
    <3>2. state[startPlan[i]] = "loaded"
      BY <1>2, <3>1 DEF LoopInv
    <3> QED BY <1>2, <1>7, <1>8, <3>1, <3>2
  <2>4. \A i \in 1..(at' - 1) : state'[startPlan[i]] # "loaded"
    <3> SUFFICES ASSUME NEW i \in 1..(at' - 1) PROVE state'[startPlan[i]] # "loaded"
      OBVIOUS
    <3>1. i \in 1..Len(startPlan) /\ (i = at \/ i \in 1..(at - 1))
      BY <1>2, <1>3
    <3>2. i # at => state[startPlan[i]] # "loaded"
      BY <1>2, <3>1 DEF LoopInv
    <3> QED BY <1>2, <1>7, <1>8, <3>1, <3>2
  <2>5. \A q \in Selected \ Range(startPlan) : state'[q] = "loaded"
    BY <1>2, <1>7 DEF LoopInv
  <2>6. ctkReady' => ctkUp'
    BY <1>2, <1>3 DEF LoopInv
  <2> QED BY <1>2, <1>3, <2>1, <2>2, <2>3, <2>4, <2>5, <2>6 DEF LoopInv
<1>10. VerdictInv'
  BY <1>2, <1>3, <1>4, <1>7 DEF VerdictInv, TypeOK
<1> QED BY <1>5, <1>6, <1>9, <1>10

LEMMA StartByCtkStep == ASSUME IInv, NEW p \in Selected, StartByCtk(p) PROVE IInv'
<1> USE DEF IInv
<1>1. Starting(p) /\ ctkReady /\ NowRunning(p, "ctk") /\ installed' = installed \cup {p}
  BY DEF StartByCtk
<1>2. /\ phase = "starting" /\ state[p] = "loaded" /\ p \notin deps[p]
      /\ \A q \in Selected : state[q] = "running" => p \notin deps[q]
  BY <1>1, TurnFacts
<1>3. TypeOK' /\ PlanInv' /\ LoopInv' /\ VerdictInv'
  BY TurnStep DEF StartStep
<1>4. HeldDependenciesRun'
  BY <1>1, <1>2 DEF HeldDependenciesRun, NowRunning, Starting, setup, TypeOK
<1>5. BackendsAgree'
  BY <1>1, <1>2 DEF BackendsAgree, NowRunning, Starting, LoopInv, TypeOK
<1> QED BY <1>3, <1>4, <1>5

LEMMA StartByFactoryStep == ASSUME IInv, NEW p \in Selected, StartByFactory(p) PROVE IInv'
<1> USE DEF IInv
<1>1. Starting(p) /\ NowRunning(p, "factory") /\ installed' = installed
  BY DEF StartByFactory
<1>2. /\ phase = "starting" /\ state[p] = "loaded" /\ p \notin deps[p]
      /\ \A q \in Selected : state[q] = "running" => p \notin deps[q]
  BY <1>1, TurnFacts
<1>3. TypeOK' /\ PlanInv' /\ LoopInv' /\ VerdictInv'
  BY TurnStep DEF StartStep
<1>4. HeldDependenciesRun'
  BY <1>1, <1>2 DEF HeldDependenciesRun, NowRunning, Starting, setup, TypeOK
<1>5. BackendsAgree'
  BY <1>1, <1>2 DEF BackendsAgree, NowRunning, Starting, TypeOK
<1> QED BY <1>3, <1>4, <1>5

LEMMA NotStartedStep ==
  ASSUME IInv, NEW p \in Selected, SkipNotBuilt(p) \/ FailToStart(p)
  PROVE  IInv'
<1> USE DEF IInv
<1>1. /\ Starting(p)
      /\ \/ state' = [state EXCEPT ![p] = "stopped"]
         \/ state' = [state EXCEPT ![p] = "failed"]
      /\ backend' = backend /\ installed' = installed /\ held' = held
  BY DEF SkipNotBuilt, FailToStart
<1>2. state[p] = "loaded"
  BY <1>1, TurnFacts
<1>3. \A q \in Selected : state'[q] = "running" <=> state[q] = "running"
  BY <1>1, <1>2 DEF TypeOK
<1>4. TypeOK' /\ PlanInv' /\ LoopInv' /\ VerdictInv'
  BY TurnStep DEF StartStep
<1>5. HeldDependenciesRun'
  BY <1>1, <1>3 DEF HeldDependenciesRun, Starting, setup
<1>6. BackendsAgree'
  BY <1>1, <1>3 DEF BackendsAgree, Starting
<1> QED BY <1>4, <1>5, <1>6

LEMMA FinishStartStep == ASSUME IInv, FinishStart PROVE IInv'
<1> USE DEF IInv
<1> DEFINE blocked == Selected \ Range(startPlan)
<1>1. /\ phase = "starting" /\ at = Len(startPlan) + 1 /\ phase' = "started"
      /\ state' = [p \in Selected |-> IF p \in blocked THEN "failed" ELSE state[p]]
      /\ startOk' = (startOk /\ blocked = {})
      /\ deps' = deps /\ factories' = factories /\ profileLoaded' = profileLoaded
      /\ startPlan' = startPlan /\ runtimeOrder' = runtimeOrder /\ at' = at
      /\ backend' = backend /\ ctkReady' = ctkReady /\ ctkUp' = ctkUp
      /\ installed' = installed /\ exitCode' = exitCode /\ held' = held
  BY DEF FinishStart, setup, planVars, ctkVars, LoopInv, TypeOK
<1>2. \A p \in Selected : state'[p] = "running" <=> state[p] = "running"
  BY <1>1 DEF LoopInv, TypeOK
<1>3. \A p \in Selected : state'[p] # "loaded"
  <2> SUFFICES ASSUME NEW p \in Range(startPlan), p \in Selected PROVE state[p] # "loaded"
    BY <1>1
  <2>1. PICK i \in 1..Len(startPlan) : startPlan[i] = p
    BY DEF Range, TypeOK
  <2> QED BY <1>1, <2>1 DEF LoopInv, TypeOK
<1>4. TypeOK'
  <2>1. state' \in [Selected -> PluginState]
    BY <1>1 DEF TypeOK, PluginState
  <2> QED BY <1>1, <2>1 DEF TypeOK, Phases
<1>5. PlanInv'
  BY <1>1 DEF PlanInv
<1>6. LoopInv'
  BY <1>1, <1>2 DEF LoopInv
<1>7. VerdictInv'
  <2>1. startOk' <=> \A p \in Selected : state'[p] # "failed"
    BY <1>1 DEF VerdictInv, TypeOK
  <2>2. profileLoaded /\ \A p \in Selected : state'[p] # "none"
    BY <1>1 DEF VerdictInv
  <2> QED BY <1>1, <1>3, <2>1, <2>2 DEF VerdictInv
<1>8. HeldDependenciesRun' /\ BackendsAgree'
  BY <1>1, <1>2 DEF HeldDependenciesRun, BackendsAgree
<1> QED BY <1>4, <1>5, <1>6, <1>7, <1>8

-----------------------------------------------------------------------------
LEMMA ShowWindowStep == ASSUME IInv, ShowWindow PROVE IInv'
<1> USE DEF IInv, ShowWindow, setup, planVars, ctkVars
<1>1. TypeOK' BY DEF TypeOK, Phases
<1>2. PlanInv' BY DEF PlanInv
<1>3. LoopInv' BY DEF LoopInv
<1>4. VerdictInv' BY DEF VerdictInv
<1>5. HeldDependenciesRun' /\ BackendsAgree' BY DEF HeldDependenciesRun, BackendsAgree
<1> QED BY <1>1, <1>2, <1>3, <1>4, <1>5

(* Both ways out of main() start the stop loop at the back; the exit code  *)
(* of an unclean start is not 0.                                           *)
LEMMA LeaveStep == ASSUME IInv, WindowFails \/ AboutToQuit PROVE IInv'
<1> USE DEF IInv
<1>1. /\ phase' = "stopping" /\ at' = Len(runtimeOrder)
      /\ phase \in {"started", "running"}
      /\ deps' = deps /\ factories' = factories /\ profileLoaded' = profileLoaded
      /\ startPlan' = startPlan /\ runtimeOrder' = runtimeOrder /\ state' = state
      /\ backend' = backend /\ ctkReady' = ctkReady /\ ctkUp' = ctkUp
      /\ installed' = installed /\ startOk' = startOk /\ held' = held
  BY DEF WindowFails, AboutToQuit, setup, planVars, ctkVars
<1>2. exitCode' \in {0, 1, 2, 3} /\ (exitCode' = 0 => profileLoaded /\ startOk)
  BY DEF WindowFails, AboutToQuit
<1>3. Len(runtimeOrder) \in Nat
  BY DEF TypeOK
<1>4. TypeOK' BY <1>1, <1>2, <1>3 DEF TypeOK, Phases
<1>5. PlanInv' BY <1>1 DEF PlanInv
<1>6. LoopInv' BY <1>1, <1>3 DEF LoopInv
<1>7. VerdictInv' BY <1>1, <1>2 DEF VerdictInv
<1>8. HeldDependenciesRun' /\ BackendsAgree' BY <1>1 DEF HeldDependenciesRun, BackendsAgree
<1> QED BY <1>4, <1>5, <1>6, <1>7, <1>8

LEMMA SkipNotRunningStep == ASSUME IInv, NEW p \in Selected, SkipNotRunning(p) PROVE IInv'
<1> USE DEF IInv
<1>1. /\ phase = "stopping" /\ at >= 1 /\ p = runtimeOrder[at] /\ at' = at - 1
      /\ state[p] # "running"
      /\ phase' = phase /\ deps' = deps /\ factories' = factories
      /\ profileLoaded' = profileLoaded /\ startPlan' = startPlan
      /\ runtimeOrder' = runtimeOrder /\ state' = state /\ backend' = backend
      /\ ctkReady' = ctkReady /\ ctkUp' = ctkUp /\ installed' = installed
      /\ startOk' = startOk /\ exitCode' = exitCode /\ held' = held
  BY DEF SkipNotRunning, Stopping, setup, planVars
<1>2. TypeOK' BY <1>1 DEF TypeOK
<1>3. PlanInv' BY <1>1 DEF PlanInv
<1>4. LoopInv' BY <1>1 DEF LoopInv, TypeOK
<1>5. VerdictInv' BY <1>1 DEF VerdictInv
<1>6. HeldDependenciesRun' /\ BackendsAgree' BY <1>1 DEF HeldDependenciesRun, BackendsAgree
<1> QED BY <1>2, <1>3, <1>4, <1>5, <1>6

(* What the stop loop reaches is not a dependency of anything that still   *)
(* runs: its dependents come later in the plan and were stopped before.    *)
LEMMA StopRunningStep == ASSUME IInv, NEW p \in Selected, StopRunning(p) PROVE IInv'
<1> USE DEF IInv
<1>1. /\ phase = "stopping" /\ at >= 1 /\ p = runtimeOrder[at] /\ at' = at - 1
      /\ state[p] = "running"
      /\ phase' = phase /\ deps' = deps /\ factories' = factories
      /\ profileLoaded' = profileLoaded /\ startPlan' = startPlan
      /\ runtimeOrder' = runtimeOrder /\ ctkReady' = ctkReady /\ ctkUp' = ctkUp
      /\ startOk' = startOk /\ exitCode' = exitCode /\ held' = held
      /\ backend' = IF backend[p] = "factory" THEN [backend EXCEPT ![p] = "none"] ELSE backend
      /\ installed' = IF backend[p] = "ctk" THEN installed \ {p} ELSE installed
  BY DEF StopRunning, Stopping, setup, planVars
<1>2. PICK s \in {"stopped", "failed"} : state' = [state EXCEPT ![p] = s]
  BY DEF StopRunning
<1>3. \A q \in Selected : state'[q] = IF q = p THEN s ELSE state[q]
  BY <1>2 DEF TypeOK
<1>4. at \in 1..Len(runtimeOrder)
  BY <1>1 DEF LoopInv, TypeOK
<1>5. at \in 1..Len(startPlan)
  BY <1>1, <1>4 DEF LoopInv, PlanInv, TypeOK
<1>6. ASSUME NEW q \in Selected, state[q] = "running", p \in deps[q] PROVE FALSE
  <2>1. p = startPlan[at] /\ p \in Range(startPlan)
    BY <1>1, <1>5 DEF PlanInv, LoopInv
  <2>2. PICK i \in 1..Len(startPlan) : startPlan[i] = q
    BY <1>6 DEF LoopInv, TypeOK, Range
  <2>6. p \in deps[startPlan[i]] \cap Range(startPlan)
    BY <1>6, <2>1, <2>2
  <2>3. PICK j \in 1..(i - 1) : startPlan[j] = p
    BY <2>2, <2>6 DEF PlanInv
  <2>4. j = at
    BY <1>5, <2>1, <2>2, <2>3 DEF PlanInv, TypeOK
  <2>5. i \in (at + 1)..Len(runtimeOrder) /\ runtimeOrder[i] = q
    BY <2>2, <2>3, <2>4 DEF PlanInv, TypeOK
  <2> QED BY <1>1, <1>6, <2>5 DEF LoopInv
<1>7. TypeOK'
  <2>1. state' \in [Selected -> PluginState]
    BY <1>2 DEF TypeOK, PluginState
  <2>2. backend' \in [Selected -> {"none", "ctk", "factory"}] /\ installed' \subseteq Selected
    BY <1>1 DEF TypeOK
  <2>3. at' \in 0..(Len(runtimeOrder) + 1)
    BY <1>1, <1>4 DEF TypeOK
  <2> QED BY <1>1, <2>1, <2>2, <2>3 DEF TypeOK
<1>8. PlanInv' BY <1>1 DEF PlanInv
<1>9. LoopInv'
  <2>1. \A q \in Selected : state'[q] = "running" => q \in Range(startPlan)
    BY <1>3 DEF LoopInv
  <2>2. \A i \in (at' + 1)..Len(runtimeOrder) : state'[runtimeOrder[i]] # "running"
    <3> TAKE i \in (at' + 1)..Len(runtimeOrder)
    <3>1. runtimeOrder[i] \in Selected
      BY <1>1, <1>4 DEF TypeOK
    <3>2. i = at \/ i \in (at + 1)..Len(runtimeOrder)
      BY <1>1, <1>4
    <3> QED BY <1>1, <1>3, <3>1, <3>2 DEF LoopInv
  <2>3. at' <= Len(runtimeOrder)
    BY <1>1, <1>4 DEF TypeOK
  <2> QED BY <1>1, <2>1, <2>2, <2>3 DEF LoopInv
<1>10. VerdictInv'
  <2>1. profileLoaded
    BY <1>1 DEF VerdictInv
  <2>2. \A q \in Selected : state'[q] # "loaded"
    BY <1>1, <1>3 DEF VerdictInv
  <2> QED BY <1>1, <2>1, <2>2 DEF VerdictInv
<1>11. HeldDependenciesRun'
  BY <1>1, <1>3, <1>6 DEF HeldDependenciesRun
<1>12. BackendsAgree'
  <2>1. \A q \in Selected : backend'[q] = IF q = p /\ backend[p] = "factory" THEN "none" ELSE backend[q]
    BY <1>1 DEF TypeOK
  <2> QED BY <1>1, <1>3, <2>1 DEF BackendsAgree
<1> QED BY <1>7, <1>8, <1>9, <1>10, <1>11, <1>12

LEMMA ShutdownCtkStep == ASSUME IInv, ShutdownCtk PROVE IInv'
<1> USE DEF IInv
<1>1. /\ phase = "stopping" /\ at < 1 /\ ctkUp' = FALSE /\ installed' = {} /\ phase' = "stopped"
      /\ deps' = deps /\ factories' = factories /\ profileLoaded' = profileLoaded
      /\ startPlan' = startPlan /\ runtimeOrder' = runtimeOrder /\ at' = at
      /\ state' = state /\ backend' = backend /\ ctkReady' = ctkReady
      /\ startOk' = startOk /\ exitCode' = exitCode /\ held' = held
  BY DEF ShutdownCtk, setup, planVars
<1>2. \A p \in Selected : state[p] # "running"
  <2> SUFFICES ASSUME NEW p \in Selected, p \in Range(startPlan) PROVE state[p] # "running"
    BY DEF LoopInv
  <2>1. PICK i \in 1..Len(startPlan) : startPlan[i] = p
    BY DEF Range, TypeOK
  <2>2. i \in (at + 1)..Len(runtimeOrder) /\ runtimeOrder[i] = p
    BY <1>1, <2>1 DEF PlanInv, TypeOK
  <2> QED BY <1>1, <2>2 DEF LoopInv
<1>3. TypeOK' BY <1>1 DEF TypeOK, Phases
<1>4. PlanInv' BY <1>1 DEF PlanInv
<1>5. LoopInv' BY <1>1, <1>2 DEF LoopInv
<1>6. VerdictInv' BY <1>1 DEF VerdictInv
<1>7. HeldDependenciesRun' BY <1>1 DEF HeldDependenciesRun
<1>8. BackendsAgree' BY <1>1, <1>2 DEF BackendsAgree
<1> QED BY <1>3, <1>4, <1>5, <1>6, <1>7, <1>8

LEMMA DestroyStep == ASSUME IInv, Destroy PROVE IInv'
<1> USE DEF IInv, Destroy, setup, planVars, ctkVars
<1>1. TypeOK' BY DEF TypeOK, Phases
<1>2. PlanInv' BY DEF PlanInv
<1>3. LoopInv' BY DEF LoopInv
<1>4. VerdictInv' BY DEF VerdictInv
<1>5. HeldDependenciesRun' /\ BackendsAgree' BY DEF HeldDependenciesRun, BackendsAgree
<1> QED BY <1>1, <1>2, <1>3, <1>4, <1>5

-----------------------------------------------------------------------------
(* The inductive invariant: where the start plan puts each plugin, what    *)
(* the start and stop loops have and have not reached, and the properties. *)
THEOREM ManagerInvariant == Spec => []IInv
<1>1. IInv /\ [Next]_vars => IInv'
  <2> SUFFICES ASSUME IInv, [Next]_vars PROVE IInv'
    OBVIOUS
  <2>1. CASE LoadProfile \/ BeginStart \/ FinishStart \/ ShowWindow
    BY <2>1, LoadProfileStep, BeginStartStep, FinishStartStep, ShowWindowStep
  <2>2. CASE WindowFails \/ AboutToQuit \/ ShutdownCtk \/ Destroy
    BY <2>2, LeaveStep, ShutdownCtkStep, DestroyStep
  <2>3. ASSUME NEW p \in Selected, StartStep(p) \/ SkipNotRunning(p) \/ StopRunning(p)
        PROVE  IInv'
    BY <2>3, StartByCtkStep, StartByFactoryStep, NotStartedStep, SkipNotRunningStep,
       StopRunningStep DEF StartStep
  <2>4. CASE UNCHANGED vars
    BY <2>4, StutterStep
  <2> QED BY <2>1, <2>2, <2>3, <2>4 DEF Next
<1> QED BY InitInvariant, <1>1, PTL DEF Spec

(* Every variable of the plugin life cycle keeps its type.                 *)
THEOREM ManagerTypeCorrect == Spec => []TypeOK
BY ManagerInvariant, PTL DEF IInv

(* startPlugins and stopPlugins keep the dependencies of a running plugin  *)
(* as it found them, whatever fails to start or to stop on the way.        *)
THEOREM DependenciesOutliveUsers == Spec => []HeldDependenciesRun
BY ManagerInvariant, PTL DEF IInv

(* The CTK and the factory bookkeeping never part from the plugin states.  *)
THEOREM BackendsStayConsistent == Spec => []BackendsAgree
BY ManagerInvariant, PTL DEF IInv

(* startPlugins judges every plugin, and its result is their conjunction.  *)
THEOREM StartJudgesEveryPlugin == Spec => []EveryPluginHasVerdict
<1>1. IInv => EveryPluginHasVerdict
  BY DEF IInv, TypeOK, PluginState, VerdictInv, EveryPluginHasVerdict
<1> QED BY ManagerInvariant, <1>1, PTL

(* After stopPlugins nothing runs, and exit code 0 means a clean start.    *)
THEOREM ShutdownIsComplete == Spec => []NothingSurvivesShutdown
<1>1. IInv => NothingSurvivesShutdown
  BY DEF IInv, TypeOK, PluginState, LoopInv, VerdictInv, BackendsAgree, NothingSurvivesShutdown
<1> QED BY ManagerInvariant, <1>1, PTL
=============================================================================

---------------------------- MODULE PluginStartup ----------------------------
(***************************************************************************)
(* From a scanned plugin list and a profile to a start plan:               *)
(* PluginManager::filterPluginsByProfile, the duplicate check at the head  *)
(* of startPlugins, and buildStartPlan.  The code runs them one after the  *)
(* other on the main thread; the model takes one step per loop iteration.  *)
(***************************************************************************)
EXTENDS PluginGraph

CONSTANTS LoadAll,    \* the profile entry "*"
          Scans,      \* the plugin lists discoverPlugins may return
          Profiles    \* the name lists loadProfile may leave behind

ASSUME LoadAllAssumption == LoadAll \notin Names
ASSUME ScansAssumption == Scans \subseteq Seq(Descriptor)
ASSUME ProfilesAssumption == Profiles \subseteq Seq(Names \cup {LoadAll})

VARIABLES
    discovered,     \* the scan result, in directory order
    profile,        \* profileConfig_.plugins
    phase,          \* which loop is running
    pending,        \* filter: names still to be looked up
    selectedNames,  \* filter: names selected so far
    k,              \* index of the running for-loop
    selected,       \* uniqueSelected: the plugins startPlugins will try
    missing,        \* blockedReasons "missing dependency: ..."
    indegree,       \* unmet dependencies of each plugin that is not missing one
    ready,          \* Kahn's queue
    ordered,        \* startPlan.orderedPlugins
    cyclic          \* blockedReasons "dependency_cycle"

vars == <<discovered, profile, phase, pending, selectedNames, k, selected,
          missing, indegree, ready, ordered, cyclic>>

inputs == <<discovered, profile>>
filterVars == <<pending, selectedNames>>
planVars == <<missing, indegree, ready, ordered, cyclic>>

Phases == {"filter", "walk", "unique", "graph", "seed", "pop", "relax", "done"}

-----------------------------------------------------------------------------
(* The selection as buildStartPlan sees it: distinct names, each with its  *)
(* dependencies.                                                           *)
SelectedNames == NamesIn(selected)
DepsOf(n) == LastNamed(selected, n).deps
Missing == {n \in SelectedNames : ~(DepsOf(n) \subseteq SelectedNames)}
Candidates == SelectedNames \ Missing

\* The plugin whose dependents are being relaxed.
Current == ordered[Len(ordered)]

Init ==
    /\ discovered \in Scans
    /\ profile \in Profiles
    /\ phase = "filter"
    /\ pending = <<>>
    /\ selectedNames = {}
    /\ k = 1
    /\ selected = <<>>
    /\ missing = {}
    /\ indegree = <<>>
    /\ ready = <<>>
    /\ ordered = <<>>
    /\ cyclic = {}

-----------------------------------------------------------------------------
(* filterPluginsByProfile                                                  *)

\* A profile that lists "*", and an empty scan, need no walk.
SelectAll ==
    /\ phase = "filter"
    /\ LoadAll \in Range(profile) \/ discovered = <<>>
    /\ selectedNames' = NamesIn(discovered)
    /\ phase' = "unique"
    /\ UNCHANGED <<inputs, pending, k, selected, planVars>>

(* The code drops repeated names here; a repeated name would be skipped by *)
(* the walk anyway, so the model keeps the list as the profile has it.     *)
RequestNamed ==
    /\ phase = "filter"
    /\ LoadAll \notin Range(profile) /\ discovered # <<>>
    /\ pending' = profile
    /\ phase' = "walk"
    /\ UNCHANGED <<inputs, selectedNames, k, selected, planVars>>

\* Mutant: only the plugins the profile names bring their dependencies.
DirectDependencies(n) ==
    {d \in LastNamed(discovered, n).deps :
        /\ n \in Range(profile)
        /\ d \in NamesIn(discovered)
        /\ d \notin selectedNames \cup {n}
        /\ d \notin Range(Tail(pending))}

(* The dependencies of n that the walk still has to look up: scanned, not  *)
(* yet selected and not yet queued.  Those not scanned are only warned of. *)
NewDependencies(n) ==
    {d \in LastNamed(discovered, n).deps :
        /\ d \in NamesIn(discovered)
        /\ d \notin selectedNames \cup {n}
        /\ d \notin Range(Tail(pending))}

(* One turn of the worklist loop.  Dependencies are queued in the order of *)
(* the manifest, which nothing downstream can tell: any order will do.     *)
TakePending ==
    /\ phase = "walk"
    /\ pending # <<>>
    /\ LET n == Head(pending)
       IN  IF n \in selectedNames \/ n \notin NamesIn(discovered)
           THEN /\ pending' = Tail(pending)
                /\ UNCHANGED selectedNames
           ELSE /\ selectedNames' = selectedNames \cup {n}
                /\ LET new == NewDependencies(n)
                       first == Cardinality(new)
                   IN  \E order \in [1..first -> new] :
                           /\ Range(order) = new
                           /\ pending' = Tail(pending) \o order
    /\ UNCHANGED <<inputs, phase, k, selected, planVars>>

FinishWalk ==
    /\ phase = "walk"
    /\ pending = <<>>
    /\ phase' = "unique"
    /\ UNCHANGED <<inputs, filterVars, k, selected, planVars>>

-----------------------------------------------------------------------------
\* Mutant: a dropped descriptor is not stepped over.
KeepFirstStuck ==
    /\ phase = "unique"
    /\ k <= Len(discovered)
    /\ LET keep == /\ discovered[k].name \in selectedNames
                   /\ discovered[k].name \notin SelectedNames
       IN  /\ selected' = IF keep THEN Append(selected, discovered[k]) ELSE selected
           /\ k' = IF keep THEN k + 1 ELSE k
    /\ UNCHANGED <<inputs, phase, filterVars, planVars>>

(* The head of startPlugins: of several descriptors of one name the first  *)
(* is kept, the others are reported and dropped.                           *)
KeepFirst ==
    /\ phase = "unique"
    /\ k <= Len(discovered)
    /\ selected' = IF /\ discovered[k].name \in selectedNames
                      /\ discovered[k].name \notin SelectedNames
                   THEN Append(selected, discovered[k])
                   ELSE selected
    /\ k' = k + 1
    /\ UNCHANGED <<inputs, phase, filterVars, planVars>>

FinishUnique ==
    /\ phase = "unique"
    /\ k > Len(discovered)
    /\ phase' = "graph"
    /\ UNCHANGED <<inputs, filterVars, k, selected, planVars>>

-----------------------------------------------------------------------------
(* buildStartPlan                                                          *)

BuildGraph ==
    /\ phase = "graph"
    /\ missing' = Missing
    /\ indegree' = [n \in Candidates |-> Cardinality(DepsOf(n) \cap Candidates)]
    /\ k' = 1
    /\ phase' = "seed"
    /\ UNCHANGED <<inputs, filterVars, selected, ready, ordered, cyclic>>

SeedReady ==
    /\ phase = "seed"
    /\ k <= Len(selected)
    /\ LET n == selected[k].name
       IN  ready' = IF n \in DOMAIN indegree /\ indegree[n] = 0
                    THEN Append(ready, n) ELSE ready
    /\ k' = k + 1
    /\ UNCHANGED <<inputs, phase, filterVars, selected, missing, indegree,
                   ordered, cyclic>>

FinishSeed ==
    /\ phase = "seed"
    /\ k > Len(selected)
    /\ phase' = "pop"
    /\ UNCHANGED <<inputs, filterVars, k, selected, planVars>>

PopReady ==
    /\ phase = "pop"
    /\ ready # <<>>
    /\ ordered' = Append(ordered, Head(ready))
    /\ ready' = Tail(ready)
    /\ k' = 1
    /\ phase' = "relax"
    /\ UNCHANGED <<inputs, filterVars, selected, missing, indegree, cyclic>>

\* Mutant: a dependent with one dependency left is taken for ready.
RelaxEarly ==
    /\ phase = "relax"
    /\ k <= Len(selected)
    /\ LET n == selected[k].name
       IN  IF n \in DOMAIN indegree /\ Current \in DepsOf(n)
           THEN /\ indegree' = [indegree EXCEPT ![n] = @ - 1]
                /\ ready' = IF indegree[n] - 1 <= 1 THEN Append(ready, n) ELSE ready
           ELSE UNCHANGED <<indegree, ready>>
    /\ k' = k + 1
    /\ UNCHANGED <<inputs, phase, filterVars, selected, missing,
                   ordered, cyclic>>

(* dependentsByDependency[current] lists the dependents in the order of    *)
(* the selection, so the loop over it is a loop over the selection.        *)
RelaxDependent ==
    /\ phase = "relax"
    /\ k <= Len(selected)
    /\ LET n == selected[k].name
       IN  IF n \in DOMAIN indegree /\ Current \in DepsOf(n)
           THEN /\ indegree' = [indegree EXCEPT ![n] = @ - 1]
                /\ ready' = IF indegree[n] - 1 = 0 THEN Append(ready, n) ELSE ready
           ELSE UNCHANGED <<indegree, ready>>
    /\ k' = k + 1
    /\ UNCHANGED <<inputs, phase, filterVars, selected, missing,
                   ordered, cyclic>>

FinishRelax ==
    /\ phase = "relax"
    /\ k > Len(selected)
    /\ phase' = "pop"
    /\ UNCHANGED <<inputs, filterVars, k, selected, planVars>>

\* Mutant: a plugin that waits for a single dependency is overlooked.
ReportCycleOffByOne ==
    /\ phase = "pop"
    /\ ready = <<>>
    /\ cyclic' = {n \in DOMAIN indegree : indegree[n] > 1}
    /\ phase' = "done"
    /\ UNCHANGED <<inputs, filterVars, k, selected, missing, indegree, ready,
                   ordered>>

ReportCycle ==
    /\ phase = "pop"
    /\ ready = <<>>
    /\ cyclic' = {n \in DOMAIN indegree : indegree[n] > 0}
    /\ phase' = "done"
    /\ UNCHANGED <<inputs, filterVars, k, selected, missing, indegree, ready,
                   ordered>>

Next ==
    \/ SelectAll \/ RequestNamed \/ TakePending \/ FinishWalk
    \/ KeepFirst \/ FinishUnique
    \/ BuildGraph \/ SeedReady \/ FinishSeed
    \/ PopReady \/ RelaxDependent \/ FinishRelax \/ ReportCycle

Spec == Init /\ [][Next]_vars

\* Start-up is one synchronous call on the main thread: it runs on.
FairSpec == Spec /\ WF_vars(Next)

-----------------------------------------------------------------------------
TypeOK ==
    /\ discovered \in Seq(Descriptor)
    /\ profile \in Seq(Names \cup {LoadAll})
    /\ phase \in Phases
    /\ pending \in Seq(Names)
    /\ selectedNames \subseteq Names
    /\ k \in Nat \ {0}
    /\ selected \in Seq(Descriptor)
    /\ missing \subseteq Names
    /\ phase \notin {"filter", "walk", "unique", "graph"} =>
           indegree \in [Candidates -> Nat]
    /\ ready \in Seq(Names)
    /\ ordered \in Seq(Names)
    /\ cyclic \subseteq Names

(* filterPluginsByProfile selects exactly the scanned plugins the profile  *)
(* asks for and, transitively, what they depend on: the least set that     *)
(* holds the former and is closed under dependencies that were scanned.    *)
RequestClosure ==
    LET scanned == NamesIn(discovered)
        wanted == IF LoadAll \in Range(profile) THEN scanned
                  ELSE scanned \cap Range(profile)
        closed(S) == \A n \in S : LastNamed(discovered, n).deps \cap scanned \subseteq S
    IN  {n \in scanned : \A S \in SUBSET scanned :
                             wanted \subseteq S /\ closed(S) => n \in S}

SelectionIsRequestClosure ==
    phase = "graph" =>
        /\ selectedNames = RequestClosure
        /\ SelectedNames = RequestClosure

(* While Kahn's loop runs, nothing is put in the start order before a      *)
(* dependency of it that can itself be started (buildStartPlan).           *)
DependenciesFirst ==
    \A i \in 1..Len(ordered) :
        \A d \in DepsOf(ordered[i]) \cap Candidates :
            \E j \in 1..(i - 1) : ordered[j] = d

(* The finished plan is a start plan for the selection: each selected      *)
(* plugin is ordered once, or blocked for one reason, and never both.      *)
PlanIsStartPlan ==
    phase = "done" =>
        IsStartPlan(SelectedNames, [n \in SelectedNames |-> DepsOf(n)],
                    ordered, missing, cyclic)

(* "dependency_cycle" is reported for the plugins that reach a cycle of    *)
(* startable plugins and for no other.  They need not be on the cycle.     *)
ReachesCycle(n) ==
    \E S \in SUBSET Candidates :
        /\ n \in S
        /\ \A m \in S : DepsOf(m) \cap S # {}

CycleVerdictIsExact ==
    phase = "done" => cyclic = {n \in Candidates : ReachesCycle(n)}

(* As long as no name was scanned twice, a plugin is refused for a missing *)
(* dependency only if that dependency was not found on disk: the filter    *)
(* brings along whatever the start plan is going to ask for.               *)
OnlyAbsentDependenciesBlock ==
    (/\ phase = "done"
     /\ \A i, j \in DOMAIN discovered : discovered[i].name = discovered[j].name => i = j)
    => \A n \in missing : ~(DepsOf(n) \subseteq NamesIn(discovered))

(* Each verdict in blockedReasons is about what it says.                   *)
BlockVerdictsAreExact == CycleVerdictIsExact /\ OnlyAbsentDependenciesBlock

\* Whatever the graph, and cycles too, start-up planning comes to an end.
PlanningEnds == <>(phase = "done")
=============================================================================

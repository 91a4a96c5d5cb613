---------------------------- MODULE PluginGraph ----------------------------
(***************************************************************************)
(* Plugins and the dependencies their manifests declare, as the plugin     *)
(* manager sees them, and what a start plan over them promises.            *)
(*                                                                         *)
(* A manifest's dependency list matters to the manager only as a set: it   *)
(* trims the names, ignores empty ones and the framework dependency        *)
(* "plugin_api", and counts a repeated name once.                          *)
(***************************************************************************)
EXTENDS Naturals, Sequences, FiniteSets, Functions

CONSTANT Names      \* every plugin name a manifest or a profile may mention

\* The part of PluginManager::PluginDescriptor that start-up depends on.
Descriptor == [name : Names, deps : SUBSET Names]

NamesIn(descriptors) == {descriptors[i].name : i \in DOMAIN descriptors}

(***************************************************************************)
(* descriptorByName: QHash::insert replaces, so of several descriptors of  *)
(* one name the last one scanned is kept.                                  *)
(***************************************************************************)
LastNamed(descriptors, n) ==
    descriptors[CHOOSE i \in DOMAIN descriptors :
                    /\ descriptors[i].name = n
                    /\ \A j \in DOMAIN descriptors :
                           descriptors[j].name = n => j <= i]

(***************************************************************************)
(* What buildStartPlan owes startPlugins for a selection of distinct       *)
(* plugins: those with a dependency outside the selection are "missing";   *)
(* the others are put in an order in which dependencies come first, except *)
(* the "cyclic" ones, each of which waits for another of them.             *)
(***************************************************************************)
IsStartPlan(names, deps, ordered, missing, cyclic) ==
    LET candidates == {n \in names : deps[n] \subseteq names}
    IN  /\ missing = names \ candidates
        /\ cyclic = candidates \ Range(ordered)
        /\ Range(ordered) \subseteq candidates
        /\ \A i, j \in 1..Len(ordered) : ordered[i] = ordered[j] => i = j
        /\ \A i \in 1..Len(ordered) :
               \A d \in deps[ordered[i]] \cap candidates :
                   \E j \in 1..(i - 1) : ordered[j] = d
        /\ \A n \in cyclic : \E d \in cyclic : d \in deps[n]
=============================================================================

----------------------------- MODULE MCDataServices -----------------------------
(***************************************************************************)
(* The services the plugins share, one at a time: "unit" says which, the   *)
(* variables of the others keep one of their initial values.               *)
(***************************************************************************)
EXTENDS DataModel, DataRepository, DeviceConsole, SessionLibrary

CONSTANTS import1, import2, single1, single2

MCLists == {{}, Entries}

MCImports == {import1, import2}
MCBatches == MCImports \cup {single1, single2}
MCSize == [b \in MCBatches |-> IF b \in MCImports THEN 2 ELSE 1]

(* One device that may come back with another capability, and another.     *)
MCDescriptions == {
    [id |-> 1, type |-> "encoder", model |-> "m1", caps |-> {"serial"}],
    [id |-> 1, type |-> "encoder", model |-> "m1", caps |-> {"serial", "udp"}],
    [id |-> 2, type |-> "mirror", model |-> "m2", caps |-> {}]}
(* A panel for a capability, and one for a type, which goes before it.      *)
MCPanels == {
    [id |-> 1, device |-> NoId, type |-> Nothing, model |-> Nothing, filters |-> {"udp"}, order |-> 1],
    [id |-> 2, device |-> NoId, type |-> "encoder", model |-> Nothing, filters |-> {}, order |-> 2]}
(* A recording of two files, the second perhaps with a part of a frame, or   *)
(* one that a crash has left, without session.json.  One range is typed, and *)
(* the wrong way round.                                                      *)
MCRecordings == {[id \in {<<1>>} |-> dir] : dir \in
    {[files |-> <<<<2>>, <<3>> \o end>>,
      meta |-> [here |-> TRUE, chunks |-> 2, count |-> 2, start |-> 2, end |-> 3]] :
         end \in {<<>>, <<Torn>>}}
    \cup {[files |-> <<<<2, Torn>>>>, meta |-> NoMeta]}}
MCTyped == {<<3, 2>>}

VARIABLE unit
vars == <<unit, modelVars, repositoryVars, consoleVars, libraryVars>>

MCInit ==
    /\ unit \in {"model", "repository", "console", "library"}
    /\ ModelInit
    /\ RepositoryInit /\ (unit # "repository" => mysql = TRUE)
    /\ ConsoleInit
    /\ LibraryInit /\ (unit # "library" => sessionDirs = CHOOSE dirs \in Recordings : TRUE)

MCNext ==
    /\ unit' = unit
    /\ \/ /\ unit = "model" /\ ModelNext
          /\ UNCHANGED <<repositoryVars, consoleVars, libraryVars>>
       \/ /\ unit = "repository" /\ RepositoryNext
          /\ UNCHANGED <<modelVars, consoleVars, libraryVars>>
       \/ /\ unit = "console" /\ ConsoleNext
          /\ UNCHANGED <<modelVars, repositoryVars, libraryVars>>
       \/ /\ unit = "library" /\ LibraryNext
          /\ reused # {} => Clipping  \* a bound: the second clip into a directory is the last
          /\ UNCHANGED <<modelVars, repositoryVars, consoleVars>>
MCSpec == MCInit /\ [][MCNext]_vars
=============================================================================

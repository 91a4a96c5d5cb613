--------------------------- MODULE MCPluginStartup ---------------------------
(***************************************************************************)
(* Every dependency graph over three scanned plugins and one that is not   *)
(* on disk; and scans that found one plugin twice.                         *)
(***************************************************************************)
EXTENDS PluginStartup

CONSTANTS a, b, c, gone

OneEach ==
    {<<[name |-> a, deps |-> da], [name |-> b, deps |-> db],
       [name |-> c, deps |-> dc]>> :
        da \in SUBSET {a, b, c, gone}, db \in SUBSET {a, b, c, gone},
        dc \in SUBSET {a, b, c}}

FoundTwice ==
    {<<[name |-> a, deps |-> d1], [name |-> b, deps |-> db],
       [name |-> a, deps |-> d2]>> :
        d1 \in SUBSET {a, b, gone}, d2 \in SUBSET {b, gone},
        db \in SUBSET {a, b}}

MCScans == OneEach \cup FoundTwice \cup {<<>>}

MCProfiles == {<<LoadAll>>, <<a>>, <<gone, c, c>>, <<b, a>>}
=============================================================================

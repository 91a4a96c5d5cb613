--------------------------- MODULE MCPluginManager ---------------------------
(***************************************************************************)
(* Three selected plugins and one that is not: the dependency graphs in    *)
(* which a plugin depends on earlier ones or on the absent one, a cycle, a *)
(* plugin behind a cycle, a plugin that depends on itself.                 *)
(***************************************************************************)
EXTENDS PluginManager, TLC

CONSTANTS a, b, c, gone

Graph(da, db, dc) == (a :> da) @@ (b :> db) @@ (c :> dc)

MCManifests ==
    {Graph(da, db, dc) : da \in SUBSET {gone}, db \in SUBSET {a, gone}, dc \in SUBSET {a, b}}
    \cup {Graph({}, {c}, {b}), Graph({b}, {a}, {b}), Graph({}, {b}, {a})}
=============================================================================

------------------------------- MODULE MCReplay -------------------------------
(***************************************************************************)
(* Three time stamps: sessions in order, out of order, with frames of the  *)
(* same millisecond, with nothing readable, with a torn end, and one whose *)
(* session.json is missing.  Two replays, two seeks.                       *)
(***************************************************************************)
EXTENDS Replay

MCSessions ==
    {[log |-> <<1, 2, 3>>, start |-> 1, end |-> 3],
     [log |-> <<2, 1, 2>>, start |-> 2, end |-> 2],
     [log |-> <<1, 1>>, start |-> 1, end |-> 3],
     [log |-> <<3, 1>>, start |-> 3, end |-> 1],
     [log |-> <<>>, start |-> 0, end |-> 0],
     [log |-> <<2, 3>>, start |-> 0, end |-> 0]}
=============================================================================

------------------------------ MODULE MCStreamPull ------------------------------
(***************************************************************************)
(* One configured stream and two that can be added: a pool of several      *)
(* workers, and commands of both kinds about configured and added streams. *)
(***************************************************************************)
EXTENDS StreamPull

CONSTANTS front, left, right

MCEnv == {front}
MCExtra == {left, right}
=============================================================================

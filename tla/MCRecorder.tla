----------------------------- MODULE MCRecorder -----------------------------
(***************************************************************************)
(* Four frames of one or two units, a queue and chunks of two, two         *)
(* seconds: room for a full queue, a rolled chunk, a write that fails      *)
(* while a drop is being counted, two recordings in one second, a crash,   *)
(* a close that loses frames and a removal that stops half-way.            *)
(***************************************************************************)
EXTENDS Recorder

MCIds == 1..2
MCArrivals == 1..4

\* A directory that has been recorded into twice and also has lost something, of
\* which session.json need not be true any more, is not followed further.
Followed == reused \cap spoilt = {}
=============================================================================

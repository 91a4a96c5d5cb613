------------------------------- MODULE Transfer -------------------------------
(***************************************************************************)
(* What a program download of the fast mirror promises.  The frames of the *)
(* loaded file go out one after the other, each once, from the first, and  *)
(* none when the download is not on; the progress that is shown is earned  *)
(* by frames that are out.                                                 *)
(***************************************************************************)
EXTENDS Naturals, Sequences

VARIABLES size,     \* frames of the loaded file
          sent,     \* numbers of the frames on the line, in this download
          going,    \* the download is on
          shown     \* the progress in per cent
tVars == <<size, sent, going, shown>>

Percent(k, n) == (100 * k) \div n

TInit == size = 0 /\ sent = <<>> /\ going = FALSE /\ shown = 0

\* Another file: nothing of it is out yet.
TLoad ==
    /\ size' \in Nat \ {0} /\ sent' = <<>> /\ going' = FALSE /\ shown' = 0

\* A download starts with the attempt to send the first frame, which a verdict
\* may end; an attempt that fails may have put the frame on the line.
TBegin ==
    /\ size > 0
    /\ \/ sent' = <<1>> /\ going' \in BOOLEAN /\ shown' = Percent(1, size)
       \/ sent' \in {<<>>, <<1>>} /\ going' = FALSE /\ shown' = 0
    /\ size' = size

TSend ==
    /\ going /\ Len(sent) < size
    /\ sent' = Append(sent, Len(sent) + 1)
    /\ shown' = Percent(Len(sent'), size)
    /\ UNCHANGED <<size, going>>

\* The end, be it the last frame, a command, a verdict or an error.
TEnd ==
    /\ going /\ going' = FALSE
    /\ sent' \in {sent} \cup {Append(sent, i) : i \in {Len(sent) + 1} \cap 1..size}
    /\ shown' \in {shown, Percent(Len(sent'), size)}
    /\ size' = size

TNext == TLoad \/ TBegin \/ TSend \/ TEnd
TSpec == TInit /\ [][TNext]_tVars
=============================================================================

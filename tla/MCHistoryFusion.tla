---------------------------- MODULE MCHistoryFusion ----------------------------
(***************************************************************************)
(* Two records; a data set with both and one with the second only; filters *)
(* that let everything pass, or the first record, which fails the second   *)
(* data set.                                                               *)
(***************************************************************************)
EXTENDS HistoryFusion

CONSTANTS r1, r2

MCDatasets == {{r1, r2}, {r2}}
MCFilters == {{r1, r2}, {r1}}
=============================================================================

--------------------------- MODULE MCMcdbThreads ---------------------------
(***************************************************************************)
(* Small instances of McdbThreads: a maintenance thread mt and two          *)
(* querying threads.                                                       *)
(***************************************************************************)
EXTENDS McdbThreads, TLC

CONSTANTS mt, q1, q2

MCProcs == {mt, q1, q2}
MCOnlyMaint == {mt}
MCSymmetry == Permutations({q1, q2})
=============================================================================

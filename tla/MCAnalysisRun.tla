--------------------------- MODULE MCAnalysisRun ---------------------------
(* Model checking AnalysisRun.                                             *)
EXTENDS AnalysisRun, TLC

RunSymmetry == Permutations(Runs)

=============================================================================

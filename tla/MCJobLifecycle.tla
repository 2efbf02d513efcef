--------------------------- MODULE MCJobLifecycle ---------------------------
(* Model checking JobLifecycle: the sets its configurations use.           *)
EXTENDS JobLifecycle, TLC

AllFailures  == NodeFailureKinds
SaidFailures == NodeFailureKinds \ {"BlankReason"}

\* Jobs are interchangeable in every safety property.
JobSymmetry == Permutations(Jobs)

=============================================================================

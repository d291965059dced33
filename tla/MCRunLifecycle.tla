--------------------------- MODULE MCRunLifecycle ---------------------------
(* RunLifecycle for TLC: the model values of its small instance.           *)
EXTENDS RunLifecycle, TLC

CONSTANTS p1, p2, fixed, eod

TwoProcs == {p1, p2}
BothJobs == {fixed, eod}
None == {}

\* The coordinator processes are interchangeable.
Symmetry == Permutations(TwoProcs)

\* So are two jobs published the same way.
JobSymmetry == Symmetry \cup Permutations(BothJobs)
=============================================================================

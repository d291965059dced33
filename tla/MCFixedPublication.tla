------------------------ MODULE MCFixedPublication --------------------------
(* Fixed publication on a small instance. *)
EXTENDS FixedPublication

CONSTANT x1

\* Overlapping ranges: both dates, and the second alone.
MCRequests == {<<1, 2>>, <<2, 2>>}
=============================================================================

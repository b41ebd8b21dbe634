------------------------------ MODULE MCBackoff ------------------------------
(***************************************************************************)
(* Durations of five bits: every base, maximum and count, the doubling     *)
(* included that would wrap around.                                        *)
(***************************************************************************)
EXTENDS Backoff

Durations == {-1, 0, 1, 2, 3, 5, 7, 8, 13, 15}
Counts == -1..6
=============================================================================

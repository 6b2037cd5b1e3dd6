---------------------------- MODULE MCLeadRuns ----------------------------
(***************************************************************************)
(* One worker, a schedule that is paused after two failed runs, two runs   *)
(* of the user and the nightly refresh: starts, limits, closing and edits. *)
(***************************************************************************)
EXTENDS LeadEngine, TLC

CONSTANTS ra, rb

Symmetry == Permutations({ra, rb})
=============================================================================

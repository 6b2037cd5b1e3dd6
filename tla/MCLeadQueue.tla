---------------------------- MODULE MCLeadQueue ----------------------------
(***************************************************************************)
(* One run of the user with a discover task and the follow-up tasks of two *)
(* companies, two workers, and one stop or crash.                          *)
(***************************************************************************)
EXTENDS LeadEngine

CONSTANTS w1, w2
=============================================================================

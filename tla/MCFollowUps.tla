---------------------------- MODULE MCFollowUps ----------------------------
(***************************************************************************)
(* One job with a run duration and two recipients, sent on the first of    *)
(* two days, beside its campaign; an account that sends one mail a day.    *)
(***************************************************************************)
EXTENDS FollowUps

CONSTANT j1

FirstStep == [j \in Jobs |-> 0]
=============================================================================

----------------------------- MODULE MCSchedule -----------------------------
(***************************************************************************)
(* One campaign with a daily cap of one message, one allowed weekday out   *)
(* of two, a send window and a run duration: the pauses and resumes of the *)
(* poll loop against one task.                                             *)
(***************************************************************************)
EXTENDS CampaignSystem, TLC

CONSTANTS c1, r1, r2, a1

SameCampaign == [r \in {r1, r2} |-> c1]
OwnAddress == (r1 :> "x") @@ (r2 :> "y")
OneAccount == [c \in {c1} |-> <<a1>>]
AccountCap == [a \in {a1} |-> 2]
CampaignLimit == [c \in {c1} |-> 1]
FirstDay == [c \in {c1} |-> {0}]
WithWindow == [c \in {c1} |-> TRUE]
RunDuration == [c \in {c1} |-> "duration"]

Symmetry == Permutations({r1, r2})
=============================================================================

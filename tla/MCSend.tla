------------------------------- MODULE MCSend -------------------------------
(***************************************************************************)
(* One campaign, two rows for one address (two overlapping uploads), caps  *)
(* out of reach: the hand-over of a message against requests of the user,  *)
(* failing statements and a crash of the worker.                           *)
(***************************************************************************)
EXTENDS CampaignSystem, TLC

CONSTANTS c1, r1, r2, a1

SameCampaign == [r \in {r1, r2} |-> c1]
SameAddress == [r \in {r1, r2} |-> "x"]
OneAccount == [c \in {c1} |-> <<a1>>]
AccountCap == [a \in {a1} |-> 3]
CampaignLimit == [c \in {c1} |-> 3]
EveryDay == [c \in {c1} |-> {0}]
NoWindow == [c \in {c1} |-> FALSE]
NoAutoPause == [c \in {c1} |-> "off"]

Symmetry == Permutations({r1, r2})
=============================================================================

------------------------------- MODULE MCLive -------------------------------
(* One campaign with two rows and a cap of one message a day: two days' work. *)
EXTENDS CampaignLiveness, TLC

CONSTANTS c1, r1, r2, a1

TwoRows == [r \in {r1, r2} |-> c1]
OwnAddress == (r1 :> "x") @@ (r2 :> "y")
OneAccount == [c \in {c1} |-> <<a1>>]
AccountCap == [a \in {a1} |-> 2]
CampaignLimit == [c \in {c1} |-> 1]
EveryDay == [c \in {c1} |-> {0}]
NoWindow == [c \in {c1} |-> FALSE]
NoAutoPause == [c \in {c1} |-> "off"]
=============================================================================

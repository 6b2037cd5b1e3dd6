------------------------------- MODULE MCDays -------------------------------
(* One campaign with one row and a send window.                            *)
EXTENDS CampaignDays

CONSTANTS c1, r1, a1

OneRow == [r \in {r1} |-> c1]
OneAddress == [r \in {r1} |-> "x"]
OneAccount == [c \in {c1} |-> <<a1>>]
AccountCap == [a \in {a1} |-> 2]
CampaignLimit == [c \in {c1} |-> 1]
EveryDay == [c \in {c1} |-> {0}]
WithWindow == [c \in {c1} |-> TRUE]
NoAutoPause == [c \in {c1} |-> "off"]
=============================================================================

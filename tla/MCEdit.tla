------------------------------- MODULE MCEdit -------------------------------
(* One scheduled campaign with one row, a send window and a fixed pause     *)
(* time: edits of its times and settings against activation and pauses.     *)
EXTENDS CampaignSystem

CONSTANTS c1, r1, a1

OneRow == [r \in {r1} |-> c1]
OneAddress == [r \in {r1} |-> "x"]
OneAccount == [c \in {c1} |-> <<a1>>]
AccountCap == [a \in {a1} |-> 1]
CampaignLimit == [c \in {c1} |-> 3]
EveryDay == [c \in {c1} |-> {0}]
WithWindow == [c \in {c1} |-> TRUE]
FixedPause == [c \in {c1} |-> "fixed"]
=============================================================================

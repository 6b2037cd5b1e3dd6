------------------------------ MODULE MCShared ------------------------------
(***************************************************************************)
(* Three parts in which several actors share a resource, side by side: a   *)
(* behaviour is one of a single part, the others rest as they started.     *)
(*   - campaigns: two with the same two accounts, of one message a day     *)
(*     each, in their lists: activation by schedule, a forced start and    *)
(*     the shared daily limits;                                            *)
(*   - companies: two lead tasks and one business, on a map before and     *)
(*     after its website was entered there, and as a search result;        *)
(*   - board: two requests or events at a time on a CRM board of two       *)
(*     pipelines, or on an empty one.                                      *)
(***************************************************************************)
EXTENDS CampaignSystem, LeadCompanies, CrmBoard, TLC

CONSTANTS c1, c2, r1, r2, r3, a1, a2, h1, h2

VARIABLE part

MCInit ==
  /\ part \in {"campaigns", "companies", "board"}
  /\ Init /\ CompaniesInit /\ BoardInit
  /\ part # "board" => Pipelines = {}

MCNext ==
  /\ UNCHANGED part
  /\ \/ part = "campaigns" /\ Next /\ UNCHANGED <<companyVars, boardVars>>
     \/ part = "companies" /\ CompaniesNext /\ UNCHANGED <<vars, boardVars>>
     \/ part = "board" /\ BoardNext /\ UNCHANGED <<vars, companyVars>>

MCSpec == MCInit /\ [][MCNext]_<<part, vars, companyVars, boardVars>>

TwoAndOne == [r \in {r1, r2} |-> c1] @@ (r3 :> c2)
OwnAddress == (r1 :> "x") @@ (r2 :> "y") @@ (r3 :> "x")
BothAccounts == [c \in {c1, c2} |-> <<a1, a2>>]
AccountCap == (a1 :> 1) @@ (a2 :> 1)
CampaignLimit == [c \in {c1, c2} |-> 3]
EveryDay == [c \in {c1, c2} |-> {0}]
NoWindow == [c \in {c1, c2} |-> FALSE]
NoAutoPause == [c \in {c1, c2} |-> "off"]

Biz(domain, source, name, phone) ==
  [domain |-> domain, profile |-> NoKey, source |-> source, name |-> name, phone |-> phone]
MCBusinesses == {Biz("d1", "osm1", "n", "p"), Biz(NoKey, "osm1", "n", "p"), Biz("d1", "web1", "title", NoKey)}

Symmetry == Permutations({r1, r2}) \union Permutations({h1, h2})
=============================================================================

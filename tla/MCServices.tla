---------------------------- MODULE MCServices ----------------------------
(***************************************************************************)
(* Services that share no state with one another, checked side by side: a  *)
(* behaviour is one of a single service, the others rest as they started.  *)
(***************************************************************************)
EXTENDS Sessions, Billing, Replies, CrmLead, TLC

VARIABLE part

Init ==
  /\ part \in {"sessions", "billing", "replies", "lead"}
  /\ SessionInit /\ BillingInit /\ ReplyInit /\ LeadInit
  /\ part # "sessions" => hasLocks

Next ==
  /\ UNCHANGED part
  /\ \/ part = "sessions" /\ SessionNext /\ UNCHANGED <<billingVars, replyVars, leadVars>>
     \/ part = "billing" /\ BillingNext /\ UNCHANGED <<sessionVars, replyVars, leadVars>>
     \/ part = "replies" /\ ReplyNext /\ UNCHANGED <<sessionVars, billingVars, leadVars>>
     \/ part = "lead" /\ LeadNext /\ UNCHANGED <<sessionVars, billingVars, replyVars>>

Spec == Init /\ [][Next]_<<part, sessionVars, billingVars, replyVars, leadVars>>

CrmStage(type, manual, stops) == [type |-> type, manual |-> manual, stops |-> stops]
MCPipeline == <<CrmStage("normal", FALSE, FALSE), CrmStage("normal", FALSE, FALSE),
                CrmStage("normal", TRUE, FALSE), CrmStage("lost", FALSE, TRUE)>>
CrmRule(on, from, to, forward, plans, stops) ==
  [on |-> on, from |-> from, to |-> to, forward |-> forward, plans |-> plans, stops |-> stops]
MCRuleBook == <<CrmRule("time_tick", 0, 2, TRUE, TRUE, FALSE), CrmRule("time_tick", 2, 1, FALSE, FALSE, FALSE),
                CrmRule("follow_up_sent", 0, 0, TRUE, TRUE, FALSE),
                CrmRule("reply_received", 1, 2, TRUE, FALSE, TRUE),
                CrmRule("bounced", 0, 1, TRUE, FALSE, FALSE)>>

Symmetry == Permutations(Tabs)

\* The variables of all four services have their types.
TypeOK == SessionTypeOK /\ BillingTypeOK /\ ReplyTypeOK /\ LeadTypeOK
=============================================================================

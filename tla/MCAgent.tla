------------------------------ MODULE MCAgent ------------------------------
(***************************************************************************)
(* The two conversations of the agent service that share no state, checked *)
(* side by side: a behaviour is one of a plan or one of the wizard.        *)
(***************************************************************************)
EXTENDS AgentActions, AgentWizard

VARIABLE part

\* The conversation that is not part of the behaviour starts in one state only.
Init ==
  /\ part \in {"plan", "wizard"} /\ ActionInit /\ WizardInit
  /\ (part = "wizard") => /\ plan = <<"create_campaign", "start_campaign">>
                          /\ store = "memory" /\ target = "none"
  /\ (part = "plan") => /\ session.active = Old
                        /\ filled = {}

vars == <<part, actionVars, wizardVars>>

Plan(action) == part = "plan" /\ action /\ UNCHANGED <<part, wizardVars>>

Next ==
  \/ Plan(ActionNext)
  \/ part = "wizard" /\ WizardNext /\ UNCHANGED <<part, actionVars>>

\* A request once begun is run to its end by its process.
Fairness ==
  /\ WF_vars(Plan(TurnRuns))
  /\ \A r \in Runners : WF_vars(Plan(Call(r)))
  /\ \A r \in Requests : WF_vars(Plan(RequestRuns(r)))

Spec == Init /\ [][Next]_vars /\ Fairness

MCPlans == {<<"create_campaign", "start_campaign">>, <<"pause_campaign", "start_campaign">>}

\* The variables of both conversations have their types.
TypeOK == ActionTypeOK /\ WizardTypeOK
=============================================================================

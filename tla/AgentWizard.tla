----------------------------- MODULE AgentWizard -----------------------------
(***************************************************************************)
(* One chat session of the agent service while the AI campaign wizard is   *)
(* open.  A turn loads the stored snapshot, the campaign agent answers the *)
(* message and chooses the next step and a tool, the tool runs, and the    *)
(* whole snapshot is written back: several turns may be under way at once, *)
(* and the next step is chosen before the tool's outcome is known.         *)
(***************************************************************************)
EXTENDS Integers, FiniteSets

CONSTANTS
  Turns,      \* POST /api/agent/chat of one session
  Old,        \* the campaign the session was about before
  NoCampaign, \* activeCampaignId undefined
  Campaigns,  \* ids the backend may give to new campaigns, a bound on their number
  MaxTrouble  \* bound on the kinds of trouble one session meets

ASSUME AgentWizardAssumption ==
  /\ Old \notin Campaigns /\ NoCampaign \notin Campaigns \union {Old} /\ MaxTrouble \in Nat

WizardTools == {"none", "create_campaign", "get_recipient_count", "save_ai_prompt",
                "generate_personalized_emails", "get_personalized_emails", "start_campaign"}

\* pendingAiCampaignStep in its order; "off" is undefined.  No step leads to "template".
Before == {"campaign_name", "campaign_subject", "template_selection", "campaign_body",
           "confirm_create"}
After == {"recipient_source", "upload_recipients", "check_count", "tone", "custom_prompt",
          "generate", "review", "approve"}
WizardSteps == Before \union After \union {"off"}

VARIABLES
  session,    \* the stored snapshot: step, recipientCount, activeCampaignId, SMTP choice pending
  turn,       \* where each turn is, and its own copy of the snapshot
  created,    \* campaigns of the wizard at the backend
  filled,     \* campaigns with recipients
  written,    \* campaigns with generated emails
  asked,      \* campaigns whose start waits for the user's approval
  counted,    \* history: campaigns whose recipients the wizard has counted above zero
  earlier,    \* history: campaigns created when the last wizard was opened
  troubles    \* history: what went wrong so far

wizardVars == <<session, turn, created, filled, written, asked, counted, earlier, troubles>>

Snapshots == [step : WizardSteps, count : {"unknown", "zero", "some"},
              active : Campaigns \union {Old, NoCampaign}, choosing : BOOLEAN]
Troubles == {"createRefused", "smtpChosen", "answerLost", "saveLost", "overlap", "writingFailed"}

\* Types of the variables.
WizardTypeOK ==
  /\ session \in Snapshots
  /\ turn \in [Turns -> [at : {"idle", "tool", "save"}, copy : Snapshots, tool : WizardTools]]
  /\ created \in SUBSET Campaigns /\ filled \in SUBSET (Campaigns \union {Old})
  /\ written \in SUBSET (Campaigns \union {Old}) /\ asked \in SUBSET (Campaigns \union {Old})
  /\ counted \in SUBSET (Campaigns \union {Old})
  /\ earlier \in SUBSET created /\ troubles \in SUBSET Troubles

Idle == [at |-> "idle", tool |-> "none", copy |->
          [step |-> "off", count |-> "unknown", active |-> NoCampaign, choosing |-> FALSE]]

WizardInit ==
  /\ session \in {[step |-> "off", count |-> "unknown", active |-> c, choosing |-> FALSE] :
                    c \in {Old, NoCampaign}}
  /\ turn = [t \in Turns |-> Idle]
  /\ created = {} /\ filled \in {{}, {Old}} /\ written = {}
  /\ asked = {} /\ counted = {} /\ earlier = {} /\ troubles = {}

-----------------------------------------------------------------------------
(* The campaign agent: what it makes of a message *)

To(step, tool) == [step |-> step, tool |-> tool]

\* Mutant of Collects: the body's draft leads to the template step of the old order.
CollectsOldOrder == [campaign_name |-> "campaign_subject", campaign_subject |-> "template_selection",
                     template_selection |-> "template", tone |-> "custom_prompt"]

\* Steps that only collect a field: where a valid answer leads.
Collects == [campaign_name |-> "campaign_subject", campaign_subject |-> "template_selection",
             template_selection |-> "campaign_body", tone |-> "custom_prompt"]

\* Steps that call a tool on the active campaign, with the step they go on to.
Calls == [recipient_source |-> To("check_count", "get_recipient_count"),
          upload_recipients |-> To("check_count", "get_recipient_count"),
          custom_prompt |-> To("generate", "save_ai_prompt"),
          generate |-> To("review", "generate_personalized_emails"),
          review |-> To("approve", "get_personalized_emails")]

Waits(step) == step \in {"recipient_source", "upload_recipients"}

CheckCount(s) ==
  IF s.count # "some" THEN To("upload_recipients", "none")
  ELSE IF s.active = NoCampaign THEN To("off", "none") ELSE To("tone", "none")

CallTool(s) ==
  IF s.active # NoCampaign THEN Calls[s.step]
  ELSE To(IF Waits(s.step) THEN s.step ELSE "off", "none")

\* Mutant of Summary: the step waits for the tool's outcome.
SummaryStays(message) ==
  CASE message = "yes" -> To("confirm_create", "create_campaign")
    [] message = "edit" -> To("campaign_body", "none")
    [] message = "text" -> To("confirm_create", "none")

\* confirm_create and approve, the two steps that look at the message.
Summary(message) ==
  CASE message = "yes" -> To("recipient_source", "create_campaign")
    [] message = "edit" -> To("campaign_body", "none")
    [] message = "text" -> To("confirm_create", "none")

Launch(s, message) ==
  CASE message = "text" -> To("approve", "none")
    [] message # "text" /\ s.active = NoCampaign -> To("off", "none")
    [] message = "yes" /\ s.active # NoCampaign -> To("off", "start_campaign")
    [] message = "edit" /\ s.active # NoCampaign ->
         To("review", "generate_personalized_emails")

\* handleAiWizardContinuation: the answers a message that is no cancellation may get.
WizardAnswers(s, message) ==
  CASE s.step \in DOMAIN Collects -> {To(Collects[s.step], "none"), To(s.step, "none")}
    [] s.step = "campaign_body" ->
         {To(IF message = "yes" THEN "confirm_create" ELSE "campaign_body", "none")}
    [] s.step = "confirm_create" -> {Summary(message)}
    [] s.step = "check_count" -> {CheckCount(s)}
    [] s.step \in DOMAIN Calls -> {CallTool(s)}
    [] s.step = "approve" -> {Launch(s, message)}

\* handleSmtpSelection: the step of the wizard stays as it is.
SmtpAnswers(s, message) ==
  IF message = "yes" THEN {To(s.step, "create_campaign")} ELSE {To(s.step, "none")}

\* startAiWizard.  A busy session answers a command by itself and keeps its state.
Opens(s, message) == s.step = "off" /\ ~s.choosing /\ message = "start"

Messages == {"start", "cancel", "yes", "edit", "text"}

Opened(s) == [s EXCEPT !.step = "campaign_name", !.count = "unknown"]

-----------------------------------------------------------------------------
(* A turn: loadMemory and the agent, the tool, saveMemory *)

Trouble(kind) ==
  /\ kind \in troubles \/ Cardinality(troubles \ {"overlap"}) < MaxTrouble
  /\ troubles' = troubles \union {kind}

Respond(t, copy, tool) ==
  turn' = [turn EXCEPT ![t] = [at |-> IF tool = "none" THEN "save" ELSE "tool",
                               copy |-> copy, tool |-> tool]]

Receive(t, message) ==
  /\ turn[t].at = "idle"
  /\ troubles' = IF \E o \in Turns \ {t} : turn[o].at # "idle"
                  THEN troubles \union {"overlap"} ELSE troubles
  /\ earlier' = IF Opens(session, message) THEN created ELSE earlier
  /\ IF session.choosing
       THEN \E a \in SmtpAnswers(session, message) :
              Respond(t, [session EXCEPT !.choosing = message \notin {"cancel", "yes"}], a.tool)
       ELSE IF Opens(session, message) THEN Respond(t, Opened(session), "none")
       ELSE /\ session.step # "off" /\ message # "start"
            /\ \E a \in IF message = "cancel" THEN {To("off", "none")}
                      ELSE WizardAnswers(session, message) :
                 Respond(t, [session EXCEPT !.step = a.step], a.tool)
  /\ UNCHANGED <<session, created, filled, written, asked, counted>>

ToSave(t, copy) == turn' = [turn EXCEPT ![t] = [at |-> "save", copy |-> copy, tool |-> "none"]]
Copy(t) == turn[t].copy
InTool(t, tool) == turn[t].at = "tool" /\ turn[t].tool = tool

\* Mutant of AfterCreate: the new campaign does not become the active one.
AfterCreateForgotten(t, c) == [Copy(t) EXCEPT !.choosing = FALSE]

AfterCreate(t, c) == [Copy(t) EXCEPT !.active = c, !.choosing = FALSE]

\* SMTP_SELECTION_REQUIRED takes the wizard back to its summary.
NeedsSmtpChoice(copy) ==
  [copy EXCEPT !.choosing = TRUE,
               !.step = IF @ = "recipient_source" THEN "confirm_create" ELSE @]

CreateFails(t) ==
  \/ \* refused: the session keeps its old campaign and the step after the creation
     /\ Trouble("createRefused") /\ ToSave(t, Copy(t)) /\ UNCHANGED created
  \/ \* several SMTP profiles, and the look-up before the call did not find one
     /\ Copy(t).step = "recipient_source"
     /\ Trouble("smtpChosen") /\ ToSave(t, NeedsSmtpChoice(Copy(t))) /\ UNCHANGED created
  \/ \* the answer is lost although the campaign was created
     /\ Trouble("answerLost") /\ ToSave(t, Copy(t))
     /\ \E c \in Campaigns \ created : created' = created \union {c}

CreateCampaign(t) ==
  /\ InTool(t, "create_campaign")
  /\ \/ /\ \E c \in Campaigns \ created :
             created' = created \union {c} /\ ToSave(t, AfterCreate(t, c))
        /\ UNCHANGED troubles
     \/ CreateFails(t)
  /\ UNCHANGED <<session, filled, written, asked, counted, earlier>>

\* get_recipient_count: a count that fails leaves the old one in the wizard's data.
CountRecipients(t) ==
  /\ InTool(t, "get_recipient_count")
  /\ LET c == Copy(t).active IN
     \/ /\ ToSave(t, [Copy(t) EXCEPT !.count = IF c \in filled THEN "some" ELSE "zero"])
        /\ counted' = IF c \in filled THEN counted \union {c} ELSE counted
     \/ ToSave(t, Copy(t)) /\ UNCHANGED counted
  /\ UNCHANGED <<session, created, filled, written, asked, earlier, troubles>>

\* save_ai_prompt, generate_personalized_emails, get_personalized_emails.
Write(t) ==
  /\ turn[t].at = "tool"
  /\ turn[t].tool \in {"save_ai_prompt", "generate_personalized_emails", "get_personalized_emails"}
  /\ ToSave(t, Copy(t))
  /\ \/ /\ written' = IF turn[t].tool = "generate_personalized_emails"
                        THEN written \union {Copy(t).active} ELSE written
        /\ UNCHANGED troubles
     \/ Trouble("writingFailed") /\ UNCHANGED written
  /\ UNCHANGED <<session, created, filled, asked, counted, earlier>>

\* The approval node stores the start and asks; nothing runs in the turn.
AskToStart(t) ==
  /\ InTool(t, "start_campaign")
  /\ asked' = asked \union {Copy(t).active}
  /\ ToSave(t, Copy(t))
  /\ UNCHANGED <<session, created, filled, written, counted, earlier, troubles>>

\* saveTurn writes the whole snapshot; an error of the store is only logged.
Save(t) ==
  /\ turn[t].at = "save"
  /\ \/ session' = Copy(t) /\ UNCHANGED troubles
     \/ Trouble("saveLost") /\ UNCHANGED session
  /\ turn' = [turn EXCEPT ![t] = Idle]
  /\ UNCHANGED <<created, filled, written, asked, counted, earlier>>

\* Recipients are uploaded in the web client.
UploadRecipients(c) ==
  /\ c \in created \ filled
  /\ filled' = filled \union {c}
  /\ UNCHANGED <<session, turn, created, written, asked, counted,
                 earlier, troubles>>

WizardNext ==
  \/ \E t \in Turns : \/ \E m \in Messages : Receive(t, m)
                      \/ CreateCampaign(t) \/ CountRecipients(t) \/ Write(t)
                      \/ AskToStart(t) \/ Save(t)
  \/ \E c \in Campaigns \union {Old} : UploadRecipients(c)

WizardSpec == WizardInit /\ [][WizardNext]_wizardVars

-----------------------------------------------------------------------------
(* Properties *)

\* The wizard asks to launch only a campaign whose recipients it has counted, even when turns
\* of the session overlap and tools fail.
AskedIsCounted == asked \subseteq counted

\* The launch of the campaign the session was about before is asked for only after a create
\* that was refused or not answered: the wizard goes on before it knows.
OldLaunchNeedsRefusedCreate ==
  Old \in asked => troubles \intersect {"createRefused", "answerLost"} # {}

\* The launch of a campaign without generated emails is asked for only when a tool of the
\* wizard failed.
AskedIsWritten == asked \subseteq written \/ "writingFailed" \in troubles

\* Between two turns, a wizard that still says "Nothing has been created yet" has created
\* nothing, unless an SMTP choice, a lost answer or write, or a turn beside it intervened.
NotYetCreated ==
  (\A t \in Turns : turn[t].at = "idle") /\ session.step \in Before /\ created # earlier
    => troubles \intersect {"smtpChosen", "answerLost", "saveLost", "overlap"} # {}

\* The wizard and the system agree: a launch is asked for only when the campaign is complete, and
\* what the wizard says of its creation is so, as far as the tools answered.
WizardInStep == AskedIsCounted /\ OldLaunchNeedsRefusedCreate /\ AskedIsWritten /\ NotYetCreated
=============================================================================
